---- MODULE Spec2Model ----
(***************************************************************************)
(* A model of py_dtn7's Bundle aggregate (src/py_dtn7/bundle.py): block    *)
(* objects on a heap, Bundle objects that hold references to them, the     *)
(* operations insert_canonical_block / remove_block / construction, and    *)
(* the wire codec to_block_data / to_cbor / from_cbor / from_block_data.   *)
(*                                                                         *)
(* Block objects are mutable and shared by reference in Python: a Bundle's *)
(* slots hold block ids, and insert_canonical_block writes the block       *)
(* number into the object it was handed, whoever else holds it.            *)
(***************************************************************************)
EXTENDS Integers, Sequences, FiniteSets, TLC

VARIABLES
    heap,     \* block objects: id -> [cls, block_type_code, block_number, flags, crc_type, data]
    bundles,  \* Bundle objects: bundle id -> Bundle record, or NoBundle before construction
    last,     \* the last call made and how it ended
    out,      \* the value the last call returned (NoOut when it returned nothing)
    wire,     \* the block-data array handed to Bundle.from_block_data (decode specification)
    calls,    \* the number of constructor, insert and remove calls made so far
    assigned  \* history: per Bundle, the numbers it gave to the non-payload blocks it took in

vars == <<heap, bundles, last, out, wire, calls, assigned>>

----------------------------------------------------------------------------
(* Bounds of the model *)

\* the number of constructor, insert_canonical_block and remove_block calls of a run
MaxCalls == 3
\* the number of such calls of a run that builds a long Bundle
MaxLongCalls == 26
\* the longest array handed to Bundle.from_block_data
MaxWireLen == 3

----------------------------------------------------------------------------
(* Python values *)

\* Python's None, for a slot that holds no block
None == 0

\* isinstance(block, PayloadBlock)
IsPayloadInstance(cls) == cls = "PayloadBlock"

\* CanonicalBlock.__init__: the five attributes (crc is dropped)
CanonicalBlock(cls, block_type_code, block_number, flags, crc_type, data) ==
    [cls |-> cls, block_type_code |-> block_type_code, block_number |-> block_number,
     flags |-> flags, crc_type |-> crc_type, data |-> data]

\* CanonicalBlock.__eq__: same class and the five attributes equal
BlockEq(x, y) == x.cls = y.cls
                 /\ x.block_type_code = y.block_type_code
                 /\ x.block_number = y.block_number
                 /\ x.flags = y.flags
                 /\ x.crc_type = y.crc_type
                 /\ x.data = y.data

\* Bundle._block_type_dict: class -> attribute name
block_type_dict ==
    [c \in {"PreviousNodeBlock", "BundleAgeBlock", "HopCountBlock", "PayloadBlock",
            "CanonicalBlock"} |->
        CASE c = "PreviousNodeBlock" -> "previous_node_block"
          [] c = "BundleAgeBlock" -> "bundle_age_block"
          [] c = "HopCountBlock" -> "hop_count_block"
          [] c = "PayloadBlock" -> "payload_block"
          [] OTHER -> "other_blocks"]

----------------------------------------------------------------------------
(* PrimaryBlock *)

\* an endpoint's scheme-specific part: a str, an int (0 is dtn:none), or the
\* pair of an ipn endpoint, which is a tuple when parsed from a URI and a
\* list when decoded from CBOR; Python compares a tuple unequal to a list
SpecificPart(kind, s, n) == [kind |-> kind, s |-> s, n |-> n]

URI_SCHEME_DTN_ENCODED == 1
URI_SCHEME_IPN_ENCODED == 2
NONE_ENDPOINT_SPECIFIC_PART_ENCODED == SpecificPart("int", "", <<0>>)

\* PrimaryBlock.__init__: the twelve attributes PrimaryBlock.__eq__ compares
PrimaryBlock(version, flags, crc_type, destination_scheme, destination_specific_part, source_scheme, source_specific_part, report_to_scheme, report_to_specific_part, bundle_creation_time, sequence_number, lifetime) ==
    [version |-> version,
     bundle_processing_control_flags |-> flags,
     crc_type |-> crc_type,
     destination_scheme |-> destination_scheme,
     destination_specific_part |-> destination_specific_part,
     source_scheme |-> source_scheme,
     source_specific_part |-> source_specific_part,
     report_to_scheme |-> report_to_scheme,
     report_to_specific_part |-> report_to_specific_part,
     bundle_creation_time |-> bundle_creation_time,
     sequence_number |-> sequence_number,
     lifetime |-> lifetime]

\* the value of Bundle.primary_block after remove_block set it to None
NonePrimary == [isNone |-> TRUE]

\* a faulty check_uri_scheme: only negative scheme codes are refused
check_uri_scheme_unsigned(scheme) ==
    IF scheme < 0 THEN "ValueError" ELSE "ok"

\* PrimaryBlock.check_uri_scheme: only 1 and 2 pass
check_uri_scheme(scheme) ==
    IF scheme < 0 THEN "ValueError"
    ELSE IF scheme = 0 THEN "ValueError"
    ELSE IF 3 <= scheme /\ scheme <= 254 THEN "ValueError"
    ELSE IF 255 <= scheme /\ scheme <= 65535 THEN "ValueError"
    ELSE IF scheme > 65535 THEN "ValueError"
    ELSE "ok"

\* default lifetime of PrimaryBlock.from_objects: 3600 * 24 * 1000
DefaultLifetime == 86400000

\* PrimaryBlock.from_objects("dtn://node1/incoming", bundle_creation_time = t)
\* and, with ipn = TRUE, from_objects("ipn://1.2", bundle_creation_time = t):
\* the setters store what from_full_uri returns, a tuple for an ipn endpoint
PrimaryFromObjects(ipn, t) ==
    PrimaryBlock(7, 0, 0,
                 IF ipn THEN URI_SCHEME_IPN_ENCODED ELSE URI_SCHEME_DTN_ENCODED,
                 IF ipn THEN SpecificPart("tuple", "", <<1, 2>>)
                        ELSE SpecificPart("str", "//node1/incoming", <<>>),
                 URI_SCHEME_DTN_ENCODED, NONE_ENDPOINT_SPECIFIC_PART_ENCODED,
                 URI_SCHEME_DTN_ENCODED, NONE_ENDPOINT_SPECIFIC_PART_ENCODED,
                 t, 0, DefaultLifetime)

\* the primary blocks bundles are constructed with: no clock (creation time
\* 0) and a dtn destination, a clock and an ipn destination
Primaries == {PrimaryFromObjects(FALSE, 0), PrimaryFromObjects(TRUE, 5)}

----------------------------------------------------------------------------
(* Bundle *)

\* a bundle variable that holds no Bundle object yet
NoBundle == [constructed |-> FALSE]

\* Bundle.__init__, before the blocks are inserted
EmptyBundle(primary_block) ==
    [primary_block |-> primary_block,
     previous_node_block |-> None,
     bundle_age_block |-> None,
     hop_count_block |-> None,
     payload_block |-> None,
     other_blocks |-> <<>>,
     cur_block_number |-> 2]

\* getattr(self, block_field) for the four singleton attributes
GetSlot(bu, field) ==
    CASE field = "previous_node_block" -> bu.previous_node_block
      [] field = "bundle_age_block" -> bu.bundle_age_block
      [] field = "hop_count_block" -> bu.hop_count_block
      [] field = "payload_block" -> bu.payload_block

\* setattr(self, block_field, block)
SetSlot(bu, field, id) ==
    CASE field = "previous_node_block" -> [bu EXCEPT !.previous_node_block = id]
      [] field = "bundle_age_block" -> [bu EXCEPT !.bundle_age_block = id]
      [] field = "hop_count_block" -> [bu EXCEPT !.hop_count_block = id]
      [] field = "payload_block" -> [bu EXCEPT !.payload_block = id]

\* the block number insert_canonical_block writes into the block
AssignedNumber(bu, cls) ==
    IF IsPayloadInstance(cls) THEN 1 ELSE bu.cur_block_number

\* the counter after insert_canonical_block numbered the block
CounterAfter(bu, cls) ==
    IF IsPayloadInstance(cls) THEN bu.cur_block_number ELSE bu.cur_block_number + 1

\* a faulty insert_canonical_block: a block of a singleton class replaces
\* the occupant of its slot
insert_canonical_block_replacing(bu, h, id) ==
    LET cls == h[id].cls
        h2 == [h EXCEPT ![id].block_number = AssignedNumber(bu, cls)]
        bu2 == [bu EXCEPT !.cur_block_number = CounterAfter(bu, cls)]
    IN  IF cls \notin DOMAIN block_type_dict
        THEN [bundle |-> bu2, heap |-> h2, err |-> "UnknownBlockType"]
        ELSE IF cls # "CanonicalBlock"
        THEN [bundle |-> SetSlot(bu2, block_type_dict[cls], id), heap |-> h2, err |-> "ok"]
        ELSE [bundle |-> [bu2 EXCEPT !.other_blocks = Append(@, id)], heap |-> h2, err |-> "ok"]

\* Bundle.insert_canonical_block(block) on Bundle value bu and heap h: the
\* Bundle and the heap afterwards, and "ok" or the error raised.  The block
\* is numbered (and the counter advanced) before its class is looked at.
insert_canonical_block(bu, h, id) ==
    LET cls == h[id].cls
        h2 == [h EXCEPT ![id].block_number = AssignedNumber(bu, cls)]
        bu2 == [bu EXCEPT !.cur_block_number = CounterAfter(bu, cls)]
    IN  IF cls \notin DOMAIN block_type_dict
        THEN [bundle |-> bu2, heap |-> h2, err |-> "UnknownBlockType"]
        ELSE IF cls # "CanonicalBlock"
        THEN IF GetSlot(bu2, block_type_dict[cls]) = None
             THEN [bundle |-> SetSlot(bu2, block_type_dict[cls], id), heap |-> h2,
                   err |-> "ok"]
             ELSE [bundle |-> bu2, heap |-> h2, err |-> "DuplicateBlock"]
        ELSE [bundle |-> [bu2 EXCEPT !.other_blocks = Append(@, id)], heap |-> h2,
              err |-> "ok"]

\* the loop of Bundle.__init__: insert the blocks in order, stop at the
\* first error
RECURSIVE InsertAll(_, _, _)
InsertAll(bu, h, ids) ==
    IF ids = <<>> THEN [bundle |-> bu, heap |-> h, err |-> "ok"]
    ELSE LET r == insert_canonical_block(bu, h, Head(ids))
         IN  IF r.err # "ok" THEN r ELSE InsertAll(r.bundle, r.heap, Tail(ids))

\* the blocks Bundle.__init__ inserts: the four named arguments in their
\* fixed order, then other_blocks, None skipped
ConstructorBlocks(previous_node_block, bundle_age_block, hop_count_block, payload_block, other_blocks) ==
    SelectSeq(<<previous_node_block, bundle_age_block, hop_count_block, payload_block>>
              \o other_blocks, LAMBDA b : b # None)

\* a faulty Bundle.__init__: the bundle-age block is not asked for
BundleInit_unchecked(primary_block, ids, h) ==
    InsertAll(EmptyBundle(primary_block), h, ids)

\* Bundle.__init__(primary_block, ...) with the blocks ids to insert
BundleInit(primary_block, ids, h) ==
    LET r == InsertAll(EmptyBundle(primary_block), h, ids)
    IN  IF r.err # "ok" THEN r
        ELSE IF primary_block.bundle_creation_time = 0 /\ r.bundle.bundle_age_block = None
        THEN [r EXCEPT !.err = "MissingRequiredBlock"]
        ELSE r

\* the argument of remove_block: a canonical block object, a PrimaryBlock, or None
BlockArg(id) == [kind |-> "block", id |-> id, p |-> NonePrimary]
PrimaryArg(p) == [kind |-> "primary", id |-> None, p |-> p]
NoneArg == [kind |-> "none", id |-> None, p |-> NonePrimary]

\* self.primary_block == block
PrimaryEqArg(p, arg) ==
    IF p = NonePrimary THEN arg.kind = "none"
    ELSE arg.kind = "primary" /\ arg.p = p

\* self.<slot> == block, for a singleton slot holding id (or None)
SlotEqArg(id, arg, h) ==
    IF id = None THEN arg.kind = "none"
    ELSE arg.kind = "block" /\ BlockEq(h[id], h[arg.id])

\* list.remove(x): drop the first element equal to the argument
RECURSIVE RemoveFirst(_, _, _)
RemoveFirst(ids, arg, h) ==
    IF ids = <<>> THEN <<>>
    ELSE IF SlotEqArg(Head(ids), arg, h) THEN Tail(ids)
    ELSE <<Head(ids)>> \o RemoveFirst(Tail(ids), arg, h)

\* a faulty remove_block: nothing is removed
remove_block_keeping(bu, h, arg) == bu

\* Bundle.remove_block(block): the first branch whose comparison holds
remove_block(bu, h, arg) ==
    IF PrimaryEqArg(bu.primary_block, arg) THEN [bu EXCEPT !.primary_block = NonePrimary]
    ELSE IF SlotEqArg(bu.previous_node_block, arg, h)
    THEN [bu EXCEPT !.previous_node_block = None]
    ELSE IF SlotEqArg(bu.bundle_age_block, arg, h) THEN [bu EXCEPT !.bundle_age_block = None]
    ELSE IF SlotEqArg(bu.hop_count_block, arg, h) THEN [bu EXCEPT !.hop_count_block = None]
    ELSE IF SlotEqArg(bu.payload_block, arg, h) THEN [bu EXCEPT !.payload_block = None]
    ELSE IF \E i \in 1..Len(bu.other_blocks) : SlotEqArg(bu.other_blocks[i], arg, h)
    THEN [bu EXCEPT !.other_blocks = RemoveFirst(@, arg, h)]
    ELSE bu


----------------------------------------------------------------------------
(* The wire codec *)

\* a faulty PrimaryBlock.to_block_data: source and destination exchanged
PrimaryBlock_to_block_data_swapped(p) ==
    <<p.version,
      p.bundle_processing_control_flags,
      p.crc_type,
      <<p.source_scheme, p.source_specific_part>>,
      <<p.destination_scheme, p.destination_specific_part>>,
      <<p.report_to_scheme, p.report_to_specific_part>>,
      <<p.bundle_creation_time, p.sequence_number>>,
      p.lifetime>>

\* PrimaryBlock.to_block_data: the eight-element tuple
PrimaryBlock_to_block_data(p) ==
    <<p.version,
      p.bundle_processing_control_flags,
      p.crc_type,
      <<p.destination_scheme, p.destination_specific_part>>,
      <<p.source_scheme, p.source_specific_part>>,
      <<p.report_to_scheme, p.report_to_specific_part>>,
      <<p.bundle_creation_time, p.sequence_number>>,
      p.lifetime>>

\* CanonicalBlock.to_block_data: the five-element tuple
CanonicalBlock_to_block_data(blk) ==
    <<blk.block_type_code, blk.block_number, blk.flags, blk.crc_type, blk.data>>

\* Bundle._get_all_used_canonical_blocks: the four slots in their fixed
\* order, then other_blocks, None skipped
get_all_used_canonical_blocks(bu) ==
    SelectSeq(<<bu.previous_node_block, bu.bundle_age_block, bu.hop_count_block,
                bu.payload_block>> \o bu.other_blocks,
              LAMBDA id : id # None)

\* Bundle.to_block_data: with primary_block None the first line raises
\* AttributeError ('NoneType' object has no attribute 'to_block_data')
Bundle_to_block_data(bu, h) ==
    IF bu.primary_block = NonePrimary
    THEN [err |-> "AttributeError", v |-> <<>>]
    ELSE LET used == get_all_used_canonical_blocks(bu)
         IN  [err |-> "ok",
              v |-> <<PrimaryBlock_to_block_data(bu.primary_block)>>
                    \o [i \in 1..Len(used) |-> CanonicalBlock_to_block_data(h[used[i]])]]

\* a byte string is a sequence of bytes and of encoded items: Enc(item)
\* stands for the bytes of the CBOR encoding of item
Byte(n) == [byte |-> n]
Enc(item) == [enc |-> item]

\* the head of a definite-length CBOR array of n items (major type 4): one
\* byte up to 23 items, two bytes up to 255, three up to 65535
CborArrayHead(n) ==
    IF n < 24 THEN <<Byte(128 + n)>>
    ELSE IF n < 256 THEN <<Byte(152), Byte(n)>>
    ELSE <<Byte(153), Byte(n \div 256), Byte(n % 256)>>

\* cbor2.dumps of a tuple of items
dumps(items) == CborArrayHead(Len(items)) \o [i \in 1..Len(items) |-> Enc(items[i])]

\* Bundle.to_cbor: b"\x9f" + dumps(blocks)[1:] + b"\xff"
Bundle_to_cbor(bu, h) ==
    LET blocks == Bundle_to_block_data(bu, h)
    IN  IF blocks.err # "ok" THEN blocks
        ELSE [err |-> "ok", v |-> <<Byte(159)>> \o Tail(dumps(blocks.v)) \o <<Byte(255)>>]

\* what CBOR decoding makes of an encoded scheme-specific part: an array
\* decodes to a list, also when a tuple was encoded
DecodedPart(sp) == IF sp.kind = "tuple" THEN [sp EXCEPT !.kind = "list"] ELSE sp

\* what cbor2.loads returns for the encoding of a block array: the same
\* values, the endpoint pairs of a primary block array decoded as above
Decoded(item) ==
    IF Len(item) = 8
    THEN [item EXCEPT ![4] = <<@[1], DecodedPart(@[2])>>,
                      ![5] = <<@[1], DecodedPart(@[2])>>,
                      ![6] = <<@[1], DecodedPart(@[2])>>]
    ELSE item

\* a decoded item that is no array: a byte that is not the head of an
\* encoded block array was read as the head of an item of its own
Stray == [i \in {0} |-> 0]

\* the items of an indefinite-length array, up to the break byte 0xff.  A
\* byte in the place of an item is the head of an integer (0x18..0x1b take
\* the following bytes as their value): the list then starts with a
\* non-array, and what follows it is not modelled.
RECURSIVE LoadsItems(_)
LoadsItems(data) ==
    IF data = <<>> \/ Head(data) = Byte(255) THEN <<>>
    ELSE IF "enc" \in DOMAIN Head(data)
    THEN <<Decoded(Head(data).enc)>> \o LoadsItems(Tail(data))
    ELSE <<Stray>>

\* cbor2.loads of the bytes to_cbor produces
loads(data) == LoadsItems(Tail(data))

\* an element of a decoded array that is an integer where an array is
\* expected
Scalar(v) == [i \in {0} |-> v]
IsScalar(e) == DOMAIN e = {0}

\* the first of the three endpoint elements and the timestamp element that
\* cannot be indexed with [0] and [1], or 0 if there is none
FirstUnindexable(a) ==
    LET bad == {i \in 4..7 : IsScalar(a[i]) \/ Len(a[i]) < 2}
    IN  IF bad = {} THEN 0 ELSE CHOOSE i \in bad : \A j \in bad : i <= j

\* a faulty PrimaryBlock.from_block_data: the elements are read before the
\* length is looked at, and elements after the eighth are ignored
PrimaryBlock_from_block_data_reading(a) ==
    IF a = Stray THEN [err |-> "TypeError", block |-> NonePrimary]
    ELSE IF Len(a) < 8 THEN [err |-> "IndexError", block |-> NonePrimary]
    ELSE IF FirstUnindexable(a) # 0
    THEN [err |-> IF IsScalar(a[FirstUnindexable(a)]) THEN "TypeError" ELSE "ValueError",
          block |-> NonePrimary]
    ELSE IF a[1] # 7 THEN [err |-> "NotImplementedError", block |-> NonePrimary]
    ELSE IF \E i \in 4..6 : check_uri_scheme(a[i][1]) # "ok"
    THEN [err |-> "ValueError", block |-> NonePrimary]
    ELSE [err |-> "ok",
          block |-> PrimaryBlock(a[1], a[2], a[3], a[4][1], a[4][2], a[5][1], a[5][2],
                                 a[6][1], a[6][2], a[7][1], a[7][2], a[8])]

\* PrimaryBlock.from_block_data: the length checks, then the arguments of the
\* constructor are read in order (an endpoint or timestamp pair that is too
\* short raises IndexError, reported as ValueError; one that is an integer
\* raises TypeError, which is not caught), then the constructor's version
\* and scheme checks
PrimaryBlock_from_block_data(a) ==
    IF a = Stray THEN [err |-> "TypeError", block |-> NonePrimary]
    ELSE IF Len(a) < 8 \/ Len(a) > 11 THEN [err |-> "ValueError", block |-> NonePrimary]
    ELSE IF 9 <= Len(a) /\ Len(a) <= 11
    THEN [err |-> "NotImplementedError", block |-> NonePrimary]
    ELSE IF FirstUnindexable(a) # 0
    THEN [err |-> IF IsScalar(a[FirstUnindexable(a)]) THEN "TypeError" ELSE "ValueError",
          block |-> NonePrimary]
    ELSE IF a[1] # 7 THEN [err |-> "NotImplementedError", block |-> NonePrimary]
    ELSE IF \E i \in 4..6 : check_uri_scheme(a[i][1]) # "ok"
    THEN [err |-> "ValueError", block |-> NonePrimary]
    ELSE [err |-> "ok",
          block |-> PrimaryBlock(a[1], a[2], a[3], a[4][1], a[4][2], a[5][1], a[5][2],
                                 a[6][1], a[6][2], a[7][1], a[7][2], a[8])]

\* the value of a slot that holds no block, in a Bundle given by value
NoneBlock == [isNone |-> TRUE]

\* a faulty CanonicalBlock.from_block_data: no arity check beyond five
\* elements, and every block a generic CanonicalBlock
CanonicalBlock_from_block_data_generic(a) ==
    IF a = Stray THEN [err |-> "TypeError", block |-> NoneBlock]
    ELSE IF Len(a) < 5 THEN [err |-> "ValueError", block |-> NoneBlock]
    ELSE [err |-> "ok", block |-> CanonicalBlock("CanonicalBlock", a[1], a[2], a[3], a[4], a[5])]

\* CanonicalBlock.from_block_data, called on CanonicalBlock itself: the
\* length checks, then the class chosen by the block type code
CanonicalBlock_from_block_data(a) ==
    IF a = Stray THEN [err |-> "TypeError", block |-> NoneBlock]
    ELSE IF Len(a) < 5 \/ Len(a) > 6 THEN [err |-> "ValueError", block |-> NoneBlock]
    ELSE IF Len(a) = 6 THEN [err |-> "NotImplementedError", block |-> NoneBlock]
    ELSE LET block_type == a[1]
             cls == CASE block_type = 1 -> "PayloadBlock"
                      [] block_type = 6 -> "PreviousNodeBlock"
                      [] block_type = 7 -> "BundleAgeBlock"
                      [] block_type = 10 -> "HopCountBlock"
                      [] 11 <= block_type /\ block_type <= 191 -> "CanonicalBlock"
                      [] 192 <= block_type /\ block_type <= 255 -> "CanonicalBlock"
                      [] OTHER -> "NotImplementedError"
         IN  IF cls = "NotImplementedError"
             THEN [err |-> "NotImplementedError", block |-> NoneBlock]
             ELSE [err |-> "ok", block |-> CanonicalBlock(cls, a[1], a[2], a[3], a[4], a[5])]

\* a Bundle by value: every block reference replaced by the block's attributes
BundleValue(bu, h) ==
    LET val(id) == IF id = None THEN NoneBlock ELSE h[id]
    IN  [primary_block |-> bu.primary_block,
         previous_node_block |-> val(bu.previous_node_block),
         bundle_age_block |-> val(bu.bundle_age_block),
         hop_count_block |-> val(bu.hop_count_block),
         payload_block |-> val(bu.payload_block),
         other_blocks |-> [i \in 1..Len(bu.other_blocks) |-> h[bu.other_blocks[i]]]]

\* what from_block_data returns when it raises
NoValue == [isNone |-> TRUE]

\* Bundle.from_block_data: the primary block from blocks[0], a new block
\* object from each further array, and Bundle(primary_block,
\* other_blocks=oblocks); the first exception ends it
Bundle_from_block_data(blocks) ==
    IF blocks = <<>> THEN [err |-> "IndexError", v |-> NoValue]
    ELSE LET pr == PrimaryBlock_from_block_data(blocks[1])
             decs == [i \in 1..(Len(blocks) - 1) |-> CanonicalBlock_from_block_data(blocks[i + 1])]
             bad == {i \in 1..Len(decs) : decs[i].err # "ok"}
         IN  IF pr.err # "ok" THEN [err |-> pr.err, v |-> NoValue]
             ELSE IF bad # {}
             THEN [err |-> decs[CHOOSE i \in bad : \A j \in bad : i <= j].err, v |-> NoValue]
             ELSE LET oblocks == [i \in 1..Len(decs) |-> decs[i].block]
                      r == BundleInit(pr.block, [i \in 1..Len(decs) |-> i], oblocks)
                  IN  IF r.err # "ok" THEN [err |-> r.err, v |-> NoValue]
                      ELSE [err |-> "ok", v |-> BundleValue(r.bundle, r.heap)]

\* Bundle.from_cbor: from_block_data(loads(data))
Bundle_from_cbor(data) == Bundle_from_block_data(loads(data))

\* a faulty Bundle.__eq__: other_blocks compared as lists
Bundle_eq_ordered(x, y) ==
    /\ x.other_blocks = y.other_blocks
    /\ x.primary_block = y.primary_block
    /\ x.previous_node_block = y.previous_node_block
    /\ x.bundle_age_block = y.bundle_age_block
    /\ x.hop_count_block = y.hop_count_block
    /\ x.payload_block = y.payload_block

\* Bundle.__eq__ on two Bundles given by value: the five attributes equal,
\* and each other_blocks list contained in the other
Bundle_eq(x, y) ==
    LET in(blk, q) == \E i \in 1..Len(q) : q[i] = blk
        other_equal == /\ \A i \in 1..Len(x.other_blocks) : in(x.other_blocks[i], y.other_blocks)
                       /\ \A i \in 1..Len(y.other_blocks) : in(y.other_blocks[i], x.other_blocks)
    IN  /\ other_equal
        /\ x.primary_block = y.primary_block
        /\ x.previous_node_block = y.previous_node_block
        /\ x.bundle_age_block = y.bundle_age_block
        /\ x.hop_count_block = y.hop_count_block
        /\ x.payload_block = y.payload_block

----------------------------------------------------------------------------
(* The objects of a run *)

\* bundles[1] is the Bundle every operation is called on; bundles[2] is
\* another Bundle, built around one of the same block objects
BundleIds == {1, 2}

\* the block objects of the run, as their constructors and from_objects
\* leave them (from_objects numbers every block 1, the tests' generic
\* CanonicalBlock objects start at 0)
Blocks ==
    <<CanonicalBlock("PreviousNodeBlock", 6, 1, 0, 0, "node"),
      CanonicalBlock("BundleAgeBlock", 7, 1, 0, 0, "age"),
      CanonicalBlock("HopCountBlock", 10, 1, 0, 0, "hops"),
      CanonicalBlock("PayloadBlock", 1, 1, 0, 0, "data"),
      CanonicalBlock("CanonicalBlock", 192, 0, 0, 0, "opaque"),
      CanonicalBlock("CustomBlock", 194, 0, 0, 0, "custom"),
      CanonicalBlock("CanonicalBlock", 193, 0, 0, 0, "opaque")>>

\* every block object of the run
AllBlockIds == DOMAIN Blocks

\* a second opaque block, used where the order of other_blocks matters
SecondOpaque == CHOOSE id \in AllBlockIds : Blocks[id].block_type_code = 193

\* the block objects the calls of Spec are made with
BlockIds == AllBlockIds \ {SecondOpaque}

\* the ids of the run's blocks of class cls
OfClass(cls) == {id \in BlockIds : Blocks[id].cls = cls}


\* the Python exception class behind each error of the model.  The raise
\* for an occupied slot evaluates format("{} already present ...", name)
\* first, which itself raises ValueError (an invalid format specifier): the
\* caller sees a ValueError either way.
ExceptionClass(err) ==
    CASE err = "UnknownBlockType" -> "ValueError"
      [] err = "DuplicateBlock" -> "ValueError"
      [] err = "MissingRequiredBlock" -> "ValueError"
      [] OTHER -> err

\* the numbers a run of insert_canonical_block calls gives to the
\* non-payload blocks it inserts successfully (history, not program state)
RECURSIVE NumbersGiven(_, _, _)
NumbersGiven(bu, h, ids) ==
    IF ids = <<>> THEN {}
    ELSE LET r == insert_canonical_block(bu, h, Head(ids))
         IN  IF r.err # "ok" THEN {}
             ELSE (IF IsPayloadInstance(h[Head(ids)].cls) THEN {}
                   ELSE {r.heap[Head(ids)].block_number})
                  \cup NumbersGiven(r.bundle, r.heap, Tail(ids))

\* what a call that returns nothing leaves in out
NoOut == [kind |-> "none"]

\* the record of a call: the operation, the Bundle it was called on, its
\* argument (a block for insert and remove, a primary block and the list of
\* blocks for the constructor), and "ok" or the error it raised
Call(op, b, arg, primary, ids, err) ==
    [op |-> op, b |-> b, arg |-> arg, primary |-> primary, ids |-> ids, err |-> err]

Init ==
    /\ heap = Blocks
    /\ bundles = [b \in BundleIds |-> NoBundle]
    /\ last = Call("none", 0, NoneArg, NonePrimary, <<>>, "ok")
    /\ out = NoOut
    /\ wire = <<>>
    /\ calls = 0
    /\ assigned = [b \in BundleIds |-> {}]

\* bundles[b] = Bundle(primary_block, previous_node_block, bundle_age_block,
\*                     hop_count_block, payload_block, other_blocks)
\* a constructor that raises leaves no Bundle, but has numbered the blocks
\* it got to
Construct(b, primary_block, ids) ==
    /\ calls < MaxCalls
    /\ bundles[b] = NoBundle
    /\ LET r == BundleInit(primary_block, ids, heap)
       IN  /\ heap' = r.heap
           /\ bundles' = IF r.err = "ok" THEN [bundles EXCEPT ![b] = r.bundle] ELSE bundles
           /\ last' = Call("construct", b, NoneArg, primary_block, ids, r.err)
           /\ assigned' = IF r.err = "ok"
                           THEN [assigned EXCEPT
                                   ![b] = NumbersGiven(EmptyBundle(primary_block), heap, ids)]
                           ELSE assigned
    /\ out' = NoOut
    /\ calls' = calls + 1
    /\ UNCHANGED wire

\* bundles[b].insert_canonical_block(heap[id]), in a run of at most limit calls
InsertCall(b, id, limit) ==
    /\ calls < limit
    /\ bundles[b] # NoBundle
    /\ LET r == insert_canonical_block(bundles[b], heap, id)
       IN  /\ heap' = r.heap
           /\ bundles' = [bundles EXCEPT ![b] = r.bundle]
           /\ last' = Call("insert", b, BlockArg(id), NonePrimary, <<>>, r.err)
           /\ assigned' = [assigned EXCEPT
                             ![b] = @ \cup NumbersGiven(bundles[b], heap, <<id>>)]
    /\ out' = NoOut
    /\ calls' = calls + 1
    /\ UNCHANGED wire

Insert(b, id) == InsertCall(b, id, MaxCalls)

\* bundles[b].remove_block(arg)
Remove(b, arg) ==
    /\ calls < MaxCalls
    /\ bundles[b] # NoBundle
    /\ bundles' = [bundles EXCEPT ![b] = remove_block(bundles[b], heap, arg)]
    /\ last' = Call("remove", b, arg, NonePrimary, <<>>, "ok")
    /\ out' = NoOut
    /\ calls' = calls + 1
    /\ UNCHANGED <<heap, wire, assigned>>

\* the other_blocks lists the constructor is called with: none, or one
\* block of a class that from_block_data or a caller passes this way
OtherBlocksArgs ==
    {<<>>} \cup {<<id>> : id \in OfClass("BundleAgeBlock") \cup OfClass("CanonicalBlock")
                                 \cup OfClass("CustomBlock")}

\* the arguments the constructor is called with
ConstructorArgs ==
    {ConstructorBlocks(pn, ba, hc, pl, ob) :
        pn \in {None} \cup OfClass("PreviousNodeBlock"),
        ba \in {None} \cup OfClass("BundleAgeBlock"),
        hc \in {None} \cup OfClass("HopCountBlock"),
        pl \in {None} \cup OfClass("PayloadBlock"),
        ob \in OtherBlocksArgs}

\* the arguments remove_block is called with
RemoveArgs == {BlockArg(id) : id \in BlockIds} \cup {PrimaryArg(p) : p \in Primaries}

Next ==
    \/ \E p \in Primaries, ids \in ConstructorArgs : Construct(1, p, ids)
    \/ \E id \in BlockIds : Insert(1, id)
    \/ \E arg \in RemoveArgs : Remove(1, arg)
    \/ \E id \in BlockIds : Construct(2, PrimaryFromObjects(FALSE, 5), <<id>>)

Spec == Init /\ [][Next]_vars

----------------------------------------------------------------------------
(* The wire codec on the Bundles a run builds *)

\* out = bundles[b].to_block_data()
ToBlockData(b) ==
    /\ bundles[b] # NoBundle
    /\ LET r == Bundle_to_block_data(bundles[b], heap)
       IN  /\ out' = [kind |-> "block_data", v |-> r.v]
           /\ last' = Call("to_block_data", b, NoneArg, NonePrimary, <<>>, r.err)
    /\ UNCHANGED <<heap, bundles, wire, calls, assigned>>

\* out = bundles[b].to_cbor()
ToCbor(b) ==
    /\ bundles[b] # NoBundle
    /\ LET r == Bundle_to_cbor(bundles[b], heap)
       IN  /\ out' = [kind |-> "bytes", v |-> r.v]
           /\ last' = Call("to_cbor", b, NoneArg, NonePrimary, <<>>, r.err)
    /\ UNCHANGED <<heap, bundles, wire, calls, assigned>>

\* out = Bundle.from_cbor(bundles[b].to_cbor())
RoundTrip(b) ==
    /\ bundles[b] # NoBundle
    /\ LET data == Bundle_to_cbor(bundles[b], heap)
           r == IF data.err # "ok" THEN [err |-> data.err, v |-> NoValue]
                ELSE Bundle_from_cbor(data.v)
       IN  /\ out' = [kind |-> "bundle", v |-> r.v]
           /\ last' = Call("round_trip", b, NoneArg, NonePrimary, <<>>, r.err)
    /\ UNCHANGED <<heap, bundles, wire, calls, assigned>>

\* one Bundle, every block object of the run, and the codec
NextWire ==
    \/ \E p \in Primaries, ids \in ConstructorArgs : Construct(1, p, ids)
    \/ \E id \in AllBlockIds : Insert(1, id)
    \/ \E arg \in RemoveArgs \cup {BlockArg(SecondOpaque)} : Remove(1, arg)
    \/ ToBlockData(1)
    \/ ToCbor(1)
    \/ RoundTrip(1)

SpecWire == Init /\ [][NextWire]_vars

\* a Bundle that grows to two dozen blocks and more: one opaque block
\* object appended again and again, and the payload block
NextLong ==
    \/ Construct(1, PrimaryFromObjects(TRUE, 5), <<>>)
    \/ \E id \in OfClass("CanonicalBlock") \cup OfClass("PayloadBlock") :
          InsertCall(1, id, MaxLongCalls)
    \/ ToCbor(1)

SpecLong == Init /\ [][NextLong]_vars

----------------------------------------------------------------------------
(* Decoding arrays that no Bundle of the run produced *)

\* a canonical block array with block type code t
BlockArray(t) == <<t, 1, 0, 0, "data">>

\* the arrays a decoded outer array is made of: primary block arrays
\* without and with a clock, block arrays of the four singleton types, of an
\* experimental type, of a type of another protocol version, and one with a CRC
WireItems ==
    {PrimaryBlock_to_block_data(PrimaryFromObjects(FALSE, 0)),
     PrimaryBlock_to_block_data(PrimaryFromObjects(FALSE, 5)),
     BlockArray(1), BlockArray(6), BlockArray(7), BlockArray(10), BlockArray(192),
     BlockArray(2), <<7, 1, 0, 1, "data", "crc">>}

\* sequences over S of length at most n
RECURSIVE SeqsUpTo(_, _)
SeqsUpTo(S, n) ==
    IF n = 0 THEN {<<>>}
    ELSE LET shorter == SeqsUpTo(S, n - 1)
         IN  shorter \cup {Append(q, x) : q \in {r \in shorter : Len(r) = n - 1}, x \in S}

InitDecode ==
    /\ heap = Blocks
    /\ bundles = [b \in BundleIds |-> NoBundle]
    /\ last = Call("none", 0, NoneArg, NonePrimary, <<>>, "ok")
    /\ out = NoOut
    /\ wire \in SeqsUpTo(WireItems, MaxWireLen)
    /\ calls = 0
    /\ assigned = [b \in BundleIds |-> {}]

\* out = Bundle.from_block_data(wire)
FromBlockData ==
    /\ last.op = "none"
    /\ LET r == Bundle_from_block_data(wire)
       IN  /\ out' = [kind |-> "bundle", v |-> r.v]
           /\ last' = Call("from_block_data", 0, NoneArg, NonePrimary, <<>>, r.err)
    /\ UNCHANGED <<heap, bundles, wire, calls, assigned>>

NextDecode == FromBlockData

SpecDecode == InitDecode /\ [][NextDecode]_vars

----------------------------------------------------------------------------
(* Decoding one canonical block array *)

\* the block type codes of the decoded arrays: every code of one byte, and
\* the codes next to that range on both sides
BlockTypeCodes == (0 - 1)..257

\* a block array of n elements with block type code t and CRC type crc
BlockWire(t, crc, n) == SubSeq(<<t, 2, 0, crc, "data", "crc", "more">>, 1, n)

InitBlock ==
    /\ heap = Blocks
    /\ bundles = [b \in BundleIds |-> NoBundle]
    /\ last = Call("none", 0, NoneArg, NonePrimary, <<>>, "ok")
    /\ out = NoOut
    /\ wire \in {BlockWire(t, crc, n) : t \in BlockTypeCodes, crc \in {0, 1}, n \in 0..7}
    /\ calls = 0
    /\ assigned = [b \in BundleIds |-> {}]

\* out = CanonicalBlock.from_block_data(wire)
DecodeBlock ==
    /\ last.op = "none"
    /\ LET r == CanonicalBlock_from_block_data(wire)
       IN  /\ out' = [kind |-> "block", v |-> r.block]
           /\ last' = Call("block_from_block_data", 0, NoneArg, NonePrimary, <<>>, r.err)
    /\ UNCHANGED <<heap, bundles, wire, calls, assigned>>

NextBlock == DecodeBlock

SpecBlock == InitBlock /\ [][NextBlock]_vars

----------------------------------------------------------------------------
(* Decoding one primary block array *)

\* scheme codes on both sides of every bound check_uri_scheme tests
SchemeCodes == {0 - 1, 0, 1, 2, 3, 254, 255, 65535, 65536}

\* what stands in the place of an endpoint: an empty array, an array of a
\* scheme code only, a pair, or an integer
EndpointItems ==
    {<<>>, Scalar(5)} \cup {<<c>> : c \in {1, 3}}
    \cup {<<c, NONE_ENDPOINT_SPECIFIC_PART_ENCODED>> : c \in SchemeCodes}

\* fewer of them, for the source and the report-to endpoint
FewEndpointItems ==
    {Scalar(5), <<1>>} \cup {<<c, NONE_ENDPOINT_SPECIFIC_PART_ENCODED>> : c \in {1, 3}}

\* what stands in the place of the creation timestamp
TimestampItems == {<<0, 0>>, <<5>>, Scalar(5)}

\* the first n elements of a primary block array with its optional
\* fragment offset, total length and CRC, and one element more
PrimaryWire(version, flags, crc, d, s, r, t, n) ==
    SubSeq(<<version, flags, crc, d, s, r, t, DefaultLifetime, 0, 0, "crc", "more">>, 1, n)

InitPrimary ==
    /\ heap = Blocks
    /\ bundles = [b \in BundleIds |-> NoBundle]
    /\ last = Call("none", 0, NoneArg, NonePrimary, <<>>, "ok")
    /\ out = NoOut
    /\ wire \in {PrimaryWire(version, flags, crc, d, s, r, t, n) :
                    version \in {6, 7}, flags \in {0, 1}, crc \in {0, 1},
                    d \in EndpointItems, s \in FewEndpointItems, r \in FewEndpointItems,
                    t \in TimestampItems, n \in 0..12}
    /\ calls = 0
    /\ assigned = [b \in BundleIds |-> {}]

\* out = PrimaryBlock.from_block_data(wire)
DecodePrimary ==
    /\ last.op = "none"
    /\ LET r == PrimaryBlock_from_block_data(wire)
       IN  /\ out' = [kind |-> "primary", v |-> r.block]
           /\ last' = Call("primary_from_block_data", 0, NoneArg, NonePrimary, <<>>, r.err)
    /\ UNCHANGED <<heap, bundles, wire, calls, assigned>>

NextPrimary == DecodePrimary

SpecPrimary == InitPrimary /\ [][NextPrimary]_vars

\* endpoints for the round trip of a primary block array: pairs of a scheme
\* code and the sentinel 0, a str or a list of two integers, and an array
\* that is too short
TripEndpoints ==
    {<<c, part>> : c \in {1, 2, 3},
                   part \in {NONE_ENDPOINT_SPECIFIC_PART_ENCODED,
                              SpecificPart("str", "//node1/incoming", <<>>),
                              SpecificPart("list", "", <<1, 2>>)}}
    \cup {<<1>>}

\* arrays of 8 elements
InitTrip ==
    /\ heap = Blocks
    /\ bundles = [b \in BundleIds |-> NoBundle]
    /\ last = Call("none", 0, NoneArg, NonePrimary, <<>>, "ok")
    /\ out = NoOut
    /\ wire \in {PrimaryWire(version, flags, crc, d, s, r, t, 8) :
                    version \in {6, 7}, flags \in {0, 4}, crc \in {0, 1},
                    d \in TripEndpoints, s \in TripEndpoints,
                    r \in {<<1, NONE_ENDPOINT_SPECIFIC_PART_ENCODED>>, <<3, NONE_ENDPOINT_SPECIFIC_PART_ENCODED>>},
                    t \in {<<0, 0>>, <<5, 1>>, <<5>>}}
    /\ calls = 0
    /\ assigned = [b \in BundleIds |-> {}]

\* p = PrimaryBlock.from_block_data(wire); out.v = p.to_block_data() and
\* out.back = PrimaryBlock.from_block_data(p.to_block_data())
PrimaryRoundTrip ==
    /\ last.op = "none"
    /\ LET r == PrimaryBlock_from_block_data(wire)
       IN  /\ out' = IF r.err # "ok" THEN [kind |-> "none", p |-> NonePrimary, v |-> <<>>, back |-> NonePrimary]
                      ELSE [kind |-> "block_data", p |-> r.block,
                            v |-> PrimaryBlock_to_block_data(r.block),
                            back |-> PrimaryBlock_from_block_data(PrimaryBlock_to_block_data(r.block)).block]
           /\ last' = Call("primary_round_trip", 0, NoneArg, NonePrimary, <<>>, r.err)
    /\ UNCHANGED <<heap, bundles, wire, calls, assigned>>

NextTrip == PrimaryRoundTrip

SpecTrip == InitTrip /\ [][NextTrip]_vars

----------------------------------------------------------------------------
(* Generic blocks with the type codes of the singleton blocks *)

\* CanonicalBlock.__init__ takes any block_type_code: besides the block
\* objects of Blocks, objects of class CanonicalBlock itself that carry the
\* type code of the payload, previous node, bundle age and hop count block
GenericBlocks ==
    Blocks \o <<CanonicalBlock("CanonicalBlock", 1, 0, 0, 0, "generic"),
                CanonicalBlock("CanonicalBlock", 6, 0, 0, 0, "generic"),
                CanonicalBlock("CanonicalBlock", 7, 0, 0, 0, "generic"),
                CanonicalBlock("CanonicalBlock", 10, 0, 0, 0, "generic")>>

GenericBlockIds == DOMAIN GenericBlocks

InitGeneric ==
    /\ heap = GenericBlocks
    /\ bundles = [b \in BundleIds |-> NoBundle]
    /\ last = Call("none", 0, NoneArg, NonePrimary, <<>>, "ok")
    /\ out = NoOut
    /\ wire = <<>>
    /\ calls = 0
    /\ assigned = [b \in BundleIds |-> {}]

\* the constructor with the named arguments and with one generic block in
\* other_blocks, then inserts and removals of every block object
NextGeneric ==
    \/ \E ids \in ConstructorArgs \cup {<<id>> : id \in GenericBlockIds} :
          Construct(1, PrimaryFromObjects(TRUE, 5), ids)
    \/ \E id \in GenericBlockIds : Insert(1, id)
    \/ \E id \in GenericBlockIds : Remove(1, BlockArg(id))
    \/ ToBlockData(1)

SpecGeneric == InitGeneric /\ [][NextGeneric]_vars

----------------------------------------------------------------------------
(* Endpoint URIs: PrimaryBlock.from_full_uri and to_full_uri.  A Python    *)
(* str is a sequence of one-character strings here.                        *)

\* the longest scheme-specific part of a parsed URI
MaxPartLen == 6

URI_SCHEME_DTN_NAME == <<"d", "t", "n">>
URI_SCHEME_IPN_NAME == <<"i", "p", "n">>
NONE_ENDPOINT_SPECIFIC_PART_NAME == <<"/", "/", "n", "o", "n", "e">>

Digits == <<"0", "1", "2", "3", "4", "5", "6", "7", "8", "9">>

\* the index of the first element of q equal to c, or 0
RECURSIVE IndexOf(_, _)
IndexOf(q, c) ==
    IF q = <<>> THEN 0
    ELSE IF Head(q) = c THEN 1
    ELSE LET i == IndexOf(Tail(q), c) IN IF i = 0 THEN 0 ELSE i + 1

\* str.split(sep): the pieces between the occurrences of the character sep
RECURSIVE Split(_, _)
Split(q, sep) ==
    LET i == IndexOf(q, sep)
    IN  IF i = 0 THEN <<q>>
        ELSE <<SubSeq(q, 1, i - 1)>> \o Split(SubSeq(q, i + 1, Len(q)), sep)

\* the number a string of digits stands for
RECURSIVE DigitsValue(_)
DigitsValue(q) ==
    IF q = <<>> THEN 0
    ELSE 10 * DigitsValue(SubSeq(q, 1, Len(q) - 1)) + (IndexOf(Digits, q[Len(q)]) - 1)

\* int(x) for a str of signs, digits and other printing characters: an
\* optional sign and at least one digit, or ValueError
ParseInt(q) ==
    LET signed == q # <<>> /\ Head(q) \in {"-", "+"}
        body == IF signed THEN Tail(q) ELSE q
    IN  IF body = <<>> \/ \E i \in 1..Len(body) : IndexOf(Digits, body[i]) = 0
        THEN [err |-> "ValueError", v |-> 0]
        ELSE [err |-> "ok",
              v |-> IF signed /\ Head(q) = "-" THEN 0 - DigitsValue(body)
                    ELSE DigitsValue(body)]

\* str(n)
RECURSIVE IntToStr(_)
IntToStr(n) ==
    IF n < 0 THEN <<"-">> \o IntToStr(0 - n)
    ELSE IF n < 10 THEN <<Digits[n + 1]>>
    ELSE IntToStr(n \div 10) \o <<Digits[(n % 10) + 1]>>

\* what the two functions return when they raise
NoUri == [err |-> "ValueError", uri |-> <<>>]
NoEndpoint == [err |-> "ValueError", scheme |-> 0, part |-> NONE_ENDPOINT_SPECIFIC_PART_ENCODED]

\* PrimaryBlock.from_full_uri: split at the first ':' (a str without ':'
\* fails to unpack, a ValueError), then by scheme name; the ipn part loses
\* its first two characters, whatever they are, and the rest is split at '.'
from_full_uri(full_uri) ==
    LET i == IndexOf(full_uri, ":")
        scheme == SubSeq(full_uri, 1, i - 1)
        specific_part == SubSeq(full_uri, i + 1, Len(full_uri))
        numbers == Split(SubSeq(specific_part, 3, Len(specific_part)), ".")
        parsed == [k \in 1..Len(numbers) |-> ParseInt(numbers[k])]
    IN  IF i = 0 THEN NoEndpoint
        ELSE IF scheme = URI_SCHEME_DTN_NAME
        THEN [err |-> "ok", scheme |-> URI_SCHEME_DTN_ENCODED,
              part |-> IF specific_part = NONE_ENDPOINT_SPECIFIC_PART_NAME
                       THEN NONE_ENDPOINT_SPECIFIC_PART_ENCODED
                       ELSE SpecificPart("str", specific_part, <<>>)]
        ELSE IF scheme = URI_SCHEME_IPN_NAME
        THEN IF specific_part = NONE_ENDPOINT_SPECIFIC_PART_NAME
             THEN [err |-> "ok", scheme |-> URI_SCHEME_IPN_ENCODED,
                   part |-> NONE_ENDPOINT_SPECIFIC_PART_ENCODED]
             ELSE IF \E k \in 1..Len(parsed) : parsed[k].err # "ok" THEN NoEndpoint
             ELSE IF Len(parsed) # 2 \/ \E k \in 1..Len(parsed) : parsed[k].v < 0
             THEN NoEndpoint
             ELSE [err |-> "ok", scheme |-> URI_SCHEME_IPN_ENCODED,
                   part |-> SpecificPart("tuple", "", [k \in 1..2 |-> parsed[k].v])]
        ELSE NoEndpoint

\* ", ".join(str(x) for x in n)
RECURSIVE JoinInts(_)
JoinInts(n) ==
    IF n = <<>> THEN <<>>
    ELSE IF Len(n) = 1 THEN IntToStr(n[1])
    ELSE IntToStr(n[1]) \o <<",", " ">> \o JoinInts(Tail(n))

\* str(specific_part), as "{}".format writes it: a str as it is, an int in
\* decimal, a tuple in parentheses (a comma after a single element), a list
\* in brackets
PyStr(specific_part) ==
    IF specific_part.kind = "str" THEN specific_part.s
    ELSE IF specific_part.kind = "int" THEN IntToStr(specific_part.n[1])
    ELSE IF specific_part.kind = "tuple"
    THEN <<"(">> \o JoinInts(specific_part.n) \o (IF Len(specific_part.n) = 1 THEN <<",">> ELSE <<>>) \o <<")">>
    ELSE <<"[">> \o JoinInts(specific_part.n) \o <<"]">>

\* "{}:{}".format(name, specific_part) for a str specific_part
FormatUri(name, specific_part) == name \o <<":">> \o specific_part

\* PrimaryBlock.to_full_uri for an int (the sentinel 0), a str, or a tuple
\* or list of integers as specific part.  With the ipn scheme the elements
\* of a str are compared with 0 (TypeError) when it has two characters, and
\* any other str has the wrong length (ValueError).
to_full_uri(scheme, specific_part) ==
    IF scheme = URI_SCHEME_DTN_ENCODED
    THEN IF specific_part = NONE_ENDPOINT_SPECIFIC_PART_ENCODED
         THEN [err |-> "ok",
               uri |-> FormatUri(URI_SCHEME_DTN_NAME, NONE_ENDPOINT_SPECIFIC_PART_NAME)]
         ELSE [err |-> "ok", uri |-> FormatUri(URI_SCHEME_DTN_NAME, PyStr(specific_part))]
    ELSE IF scheme = URI_SCHEME_IPN_ENCODED
    THEN IF specific_part = NONE_ENDPOINT_SPECIFIC_PART_ENCODED
         THEN [err |-> "ok",
               uri |-> FormatUri(URI_SCHEME_IPN_NAME, NONE_ENDPOINT_SPECIFIC_PART_NAME)]
         ELSE IF specific_part.kind = "str"
         THEN [err |-> IF Len(specific_part.s) = 2 THEN "TypeError" ELSE "ValueError",
               uri |-> <<>>]
         ELSE IF Len(specific_part.n) # 2 \/ \E k \in 1..Len(specific_part.n) : specific_part.n[k] < 0
         THEN NoUri
         ELSE [err |-> "ok",
               uri |-> FormatUri(URI_SCHEME_IPN_NAME,
                                 <<"/", "/">> \o IntToStr(specific_part.n[1]) \o <<".">>
                                 \o IntToStr(specific_part.n[2]))]
    ELSE NoUri

\* the characters of the scheme-specific parts, and the parts of up to n
\* of them
UriChars == {"/", ".", "-", "0", "1"}
UriParts(n) == SeqsUpTo(UriChars, n) \cup {NONE_ENDPOINT_SPECIFIC_PART_NAME}
SchemeNames == {URI_SCHEME_DTN_NAME, URI_SCHEME_IPN_NAME, <<"b", "a", "d">>, <<>>}

\* the str arguments of from_full_uri: with a ':' after a scheme name, and
\* short ones without any
FullUris(n) == {FormatUri(name, part) : name \in SchemeNames, part \in UriParts(n)} \cup SeqsUpTo(UriChars, 3)

\* the specific_part arguments of to_full_uri
SpecificParts ==
    {NONE_ENDPOINT_SPECIFIC_PART_ENCODED}
    \cup {SpecificPart("str", q, <<>>) : q \in SeqsUpTo(UriChars, 3) \cup {NONE_ENDPOINT_SPECIFIC_PART_NAME}}
    \cup {SpecificPart(kind, "", n) : kind \in {"tuple", "list"}, n \in SeqsUpTo({0 - 1, 0, 1, 12}, 3)}

UriInput(full_uri) == [kind |-> "uri", uri |-> full_uri, scheme |-> 0, part |-> NONE_ENDPOINT_SPECIFIC_PART_ENCODED]
EndpointInput(scheme, specific_part) == [kind |-> "endpoint", uri |-> <<>>, scheme |-> scheme, part |-> specific_part]

InitUri ==
    /\ heap = Blocks
    /\ bundles = [b \in BundleIds |-> NoBundle]
    /\ last = Call("none", 0, NoneArg, NonePrimary, <<>>, "ok")
    /\ out = NoOut
    /\ wire \in {UriInput(u) : u \in FullUris(MaxPartLen)}
                \cup {EndpointInput(scheme, part) : scheme \in 0..3, part \in SpecificParts}
    /\ calls = 0
    /\ assigned = [b \in BundleIds |-> {}]

\* PrimaryBlock.to_full_uri(*PrimaryBlock.from_full_uri(full_uri))
ParseUri ==
    /\ last.op = "none"
    /\ wire.kind = "uri"
    /\ LET r == from_full_uri(wire.uri)
       IN  /\ out' = [kind |-> "endpoint", v |-> r,
                      back |-> IF r.err = "ok" THEN to_full_uri(r.scheme, r.part) ELSE NoUri]
           /\ last' = Call("from_full_uri", 0, NoneArg, NonePrimary, <<>>, r.err)
    /\ UNCHANGED <<heap, bundles, wire, calls, assigned>>

\* PrimaryBlock.from_full_uri(PrimaryBlock.to_full_uri(scheme, specific_part))
FormatEndpoint ==
    /\ last.op = "none"
    /\ wire.kind = "endpoint"
    /\ LET r == to_full_uri(wire.scheme, wire.part)
       IN  /\ out' = [kind |-> "uri", v |-> r,
                      back |-> IF r.err = "ok" THEN from_full_uri(r.uri) ELSE NoEndpoint]
           /\ last' = Call("to_full_uri", 0, NoneArg, NonePrimary, <<>>, r.err)
    /\ UNCHANGED <<heap, bundles, wire, calls, assigned>>

NextUri == ParseUri \/ FormatEndpoint

SpecUri == InitUri /\ [][NextUri]_vars

----------------------------------------------------------------------------
(* Bundle.bundle_id *)

\* what bundle_id returns when it raises err
NoId(err) == [err |-> err, v |-> <<>>]

\* Bundle.bundle_id, on a Bundle or on the value of one:
\* "{}-{}-{}".format(full_source_uri, bundle_creation_time, sequence_number);
\* a Bundle whose primary_block is None has no such attributes, and
\* full_source_uri is to_full_uri of the source endpoint
bundle_id(bu) ==
    IF bu.primary_block = NonePrimary THEN NoId("AttributeError")
    ELSE LET full_source_uri == to_full_uri(bu.primary_block.source_scheme,
                                            bu.primary_block.source_specific_part)
         IN  IF full_source_uri.err # "ok" THEN NoId(full_source_uri.err)
             ELSE [err |-> "ok",
                   v |-> full_source_uri.uri
                         \o <<"-">> \o IntToStr(bu.primary_block.bundle_creation_time)
                         \o <<"-">> \o IntToStr(bu.primary_block.sequence_number)]

\* the source endpoints of the run's bundles: dtn://none as from_full_uri
\* stores it and as a str, two dtn nodes, ipn://none and three ipn nodes
IdSources ==
    {<<URI_SCHEME_DTN_ENCODED, NONE_ENDPOINT_SPECIFIC_PART_ENCODED>>,
     <<URI_SCHEME_DTN_ENCODED, SpecificPart("str", NONE_ENDPOINT_SPECIFIC_PART_NAME, <<>>)>>,
     <<URI_SCHEME_DTN_ENCODED, SpecificPart("str", <<"/", "/", "a">>, <<>>)>>,
     <<URI_SCHEME_DTN_ENCODED, SpecificPart("str", <<"/", "/", "a", "-", "1">>, <<>>)>>,
     <<URI_SCHEME_IPN_ENCODED, NONE_ENDPOINT_SPECIFIC_PART_ENCODED>>,
     <<URI_SCHEME_IPN_ENCODED, SpecificPart("tuple", "", <<1, 2>>)>>,
     <<URI_SCHEME_IPN_ENCODED, SpecificPart("tuple", "", <<1, 21>>)>>,
     <<URI_SCHEME_IPN_ENCODED, SpecificPart("tuple", "", <<12, 1>>)>>}

\* a primary block with the source, creation time and sequence number given
IdPrimary(source, bundle_creation_time, sequence_number) ==
    PrimaryBlock(7, 0, 0,
                 URI_SCHEME_DTN_ENCODED, SpecificPart("str", "//node1/incoming", <<>>),
                 source[1], source[2],
                 URI_SCHEME_DTN_ENCODED, NONE_ENDPOINT_SPECIFIC_PART_ENCODED,
                 bundle_creation_time, sequence_number, DefaultLifetime)

IdPrimaries == {IdPrimary(source, t, n) : source \in IdSources, t \in {0, 5}, n \in {0, 1}}

\* the blocks those bundles are constructed with: a bundle age block
IdBlocks == {ConstructorBlocks(None, ba, None, None, <<>>) : ba \in OfClass("BundleAgeBlock")}

\* out = bundles[b].bundle_id
BundleId(b) ==
    /\ bundles[b] # NoBundle
    /\ LET r == bundle_id(bundles[b])
       IN  /\ out' = [kind |-> "str", v |-> r.v]
           /\ last' = Call("bundle_id", b, NoneArg, NonePrimary, <<>>, r.err)
    /\ UNCHANGED <<heap, bundles, wire, calls, assigned>>

\* out = Bundle.from_cbor(bundles[b].to_cbor()).bundle_id
ReencodedBundleId(b) ==
    /\ bundles[b] # NoBundle
    /\ LET data == Bundle_to_cbor(bundles[b], heap)
           decoded == IF data.err # "ok" THEN [err |-> data.err, v |-> NoValue]
                      ELSE Bundle_from_cbor(data.v)
           r == IF decoded.err # "ok" THEN NoId(decoded.err) ELSE bundle_id(decoded.v)
       IN  /\ out' = [kind |-> "str", v |-> r.v]
           /\ last' = Call("reencoded_bundle_id", b, NoneArg, NonePrimary, <<>>, r.err)
    /\ UNCHANGED <<heap, bundles, wire, calls, assigned>>

\* two Bundles with their own sources, a removal, and their bundle ids
NextId ==
    \/ \E b \in BundleIds, p \in IdPrimaries, ids \in IdBlocks : Construct(b, p, ids)
    \/ \E b \in BundleIds, id \in OfClass("BundleAgeBlock") : Remove(b, BlockArg(id))
    \/ \E b \in BundleIds, p \in IdPrimaries : Remove(b, PrimaryArg(p))
    \/ \E b \in BundleIds : BundleId(b)
    \/ \E b \in BundleIds : ReencodedBundleId(b)

SpecId == Init /\ [][NextId]_vars

----------------------------------------------------------------------------
(* Bundle.__eq__ on two Bundles of one run *)

\* the blocks the two Bundles are constructed with: a bundle age block
\* alone or with a payload block, and with the same other blocks in either
\* order, once or twice
EqArgs ==
    LET age == CHOOSE id \in OfClass("BundleAgeBlock") : TRUE
        payload == CHOOSE id \in OfClass("PayloadBlock") : TRUE
        opaque == CHOOSE id \in OfClass("CanonicalBlock") : TRUE
    IN  {<<age>>, <<age, payload>>, <<age, opaque>>, <<age, opaque, opaque>>,
         <<age, opaque, SecondOpaque>>, <<age, SecondOpaque, opaque>>}

\* out = (bundles[b] == bundles[c])
Compare(b, c) ==
    /\ bundles[b] # NoBundle
    /\ bundles[c] # NoBundle
    /\ out' = [kind |-> "bool",
               v |-> Bundle_eq(BundleValue(bundles[b], heap), BundleValue(bundles[c], heap))]
    /\ last' = Call("eq", b, NoneArg, NonePrimary, <<c>>, "ok")
    /\ UNCHANGED <<heap, bundles, wire, calls, assigned>>

NextEq ==
    \/ \E b \in BundleIds, p \in Primaries, ids \in EqArgs : Construct(b, p, ids)
    \/ \E b \in BundleIds, id \in BlockIds : Insert(b, id)
    \/ \E b \in BundleIds, arg \in RemoveArgs : Remove(b, arg)
    \/ \E b, c \in BundleIds : Compare(b, c)

SpecEq == Init /\ [][NextEq]_vars

----------------------------------------------------------------------------
(* HopCountBlock and BundleAgeBlock: the block data is the CBOR encoding   *)
(* of the fields, read and written through the properties                  *)

\* the k bytes of n, most significant first
RECURSIVE BigEndian(_, _)
BigEndian(n, k) == IF k = 0 THEN <<>> ELSE BigEndian(n \div 256, k - 1) \o <<Byte(n % 256)>>

\* the head of a CBOR item of the major type with argument n: in the first
\* byte up to 23, then in 1, 2 or 4 further bytes (8 bytes from 2^32 on,
\* above every integer of the model)
CborHead(major, n) ==
    IF n < 24 THEN <<Byte(32 * major + n)>>
    ELSE IF n < 256 THEN <<Byte(32 * major + 24)>> \o BigEndian(n, 1)
    ELSE IF n < 65536 THEN <<Byte(32 * major + 25)>> \o BigEndian(n, 2)
    ELSE <<Byte(32 * major + 26)>> \o BigEndian(n, 4)

\* cbor2.dumps of an int: major type 0, or 1 with -1 - n when negative
dumps_int(n) == IF n >= 0 THEN CborHead(0, n) ELSE CborHead(1, (0 - 1) - n)

\* cbor2.dumps of a list or tuple of ints
dumps_ints(q) ==
    LET RECURSIVE items(_)
        items(r) == IF r = <<>> THEN <<>> ELSE dumps_int(Head(r)) \o items(Tail(r))
    IN  CborHead(4, Len(q)) \o items(q)

\* the number the bytes stand for, most significant first
RECURSIVE FromBigEndian(_)
FromBigEndian(q) ==
    IF q = <<>> THEN 0 ELSE 256 * FromBigEndian(SubSeq(q, 1, Len(q) - 1)) + q[Len(q)].byte

\* the head at the start of data: its major type, its argument, and the
\* bytes after it
ReadHead(data) ==
    LET info == Head(data).byte % 32
        k == IF info < 24 THEN 0 ELSE IF info = 24 THEN 1 ELSE IF info = 25 THEN 2
             ELSE IF info = 26 THEN 4 ELSE 8
    IN  [major |-> Head(data).byte \div 32,
         arg |-> IF info < 24 THEN info ELSE FromBigEndian(SubSeq(data, 2, 1 + k)),
         rest |-> SubSeq(data, 2 + k, Len(data))]

\* the int a head of major type 0 or 1 stands for
HeadInt(head) == IF head.major = 0 THEN head.arg ELSE (0 - 1) - head.arg

\* cbor2.loads of the encoding of an int
loads_int(data) == HeadInt(ReadHead(data))

\* cbor2.loads of the encoding of an array of ints: a list
loads_ints(data) ==
    LET RECURSIVE items(_, _)
        items(n, rest) ==
            IF n = 0 THEN <<>>
            ELSE <<HeadInt(ReadHead(rest))>> \o items(n - 1, ReadHead(rest).rest)
    IN  items(ReadHead(data).arg, ReadHead(data).rest)

\* HopCountBlock.from_objects with the default flags
HopCountBlock_from_objects(hop_limit, hop_count) ==
    CanonicalBlock("HopCountBlock", 10, 1, 0, 0, dumps_ints(<<hop_limit, hop_count>>))

\* BundleAgeBlock.from_objects with the default flags
BundleAgeBlock_from_objects(age_milliseconds) ==
    CanonicalBlock("BundleAgeBlock", 7, 1, 0, 0, dumps_int(age_milliseconds))

\* the properties HopCountBlock.hop_limit and hop_count
hop_limit(block) == loads_ints(block.data)[1]
hop_count(block) == loads_ints(block.data)[2]

\* a faulty hop_count setter: the value goes to the first element
set_hop_count_first(block, value) ==
    [block EXCEPT !.data = dumps_ints([loads_ints(block.data) EXCEPT ![1] = value])]

\* the setter of HopCountBlock.hop_count: arr = loads(data); arr[1] = value;
\* data = dumps(arr)
set_hop_count(block, value) ==
    [block EXCEPT !.data = dumps_ints([loads_ints(block.data) EXCEPT ![2] = value])]

\* the property BundleAgeBlock.age_milliseconds and its setter
age_milliseconds(block) == loads_int(block.data)
set_age_milliseconds(block, value) == [block EXCEPT !.data = dumps_int(value)]

\* the arguments of from_objects and the values assigned afterwards
HopLimits == {0, 1, 98, 255, 256}
HopCounts == {0, 76}
Ages == {0, 1234567}
AssignedValues == {0 - 1, 0, 23, 24, 90, 255, 256, 65536}

\* heap[1] = HopCountBlock.from_objects(limit, count) and
\* heap[2] = BundleAgeBlock.from_objects(age); wire keeps the arguments, and
\* assigned the hop count and the age given or assigned last
InitFields ==
    \E limit \in HopLimits, count \in HopCounts, age \in Ages :
        /\ heap = <<HopCountBlock_from_objects(limit, count), BundleAgeBlock_from_objects(age)>>
        /\ wire = <<limit, count, age>>
        /\ assigned = <<count, age>>
        /\ bundles = [b \in BundleIds |-> NoBundle]
        /\ last = Call("none", 0, NoneArg, NonePrimary, <<>>, "ok")
        /\ out = NoOut
        /\ calls = 0

\* heap[1].hop_count = value
SetHopCount(value) ==
    /\ calls < MaxCalls
    /\ heap' = [heap EXCEPT ![1] = set_hop_count(@, value)]
    /\ assigned' = [assigned EXCEPT ![1] = value]
    /\ last' = Call("set_hop_count", 0, NoneArg, NonePrimary, <<value>>, "ok")
    /\ calls' = calls + 1
    /\ UNCHANGED <<bundles, out, wire>>

\* heap[2].age_milliseconds = value
SetAgeMilliseconds(value) ==
    /\ calls < MaxCalls
    /\ heap' = [heap EXCEPT ![2] = set_age_milliseconds(@, value)]
    /\ assigned' = [assigned EXCEPT ![2] = value]
    /\ last' = Call("set_age_milliseconds", 0, NoneArg, NonePrimary, <<value>>, "ok")
    /\ calls' = calls + 1
    /\ UNCHANGED <<bundles, out, wire>>

NextFields ==
    \/ \E value \in AssignedValues : SetHopCount(value)
    \/ \E value \in AssignedValues : SetAgeMilliseconds(value)

SpecFields == InitFields /\ [][NextFields]_vars

----------------------------------------------------------------------------
(* Flags.  A Python int has no width: a non-negative one is its numeral to *)
(* the base 65536 here, least significant limb first, without leading zero *)
(* limbs (0 is the empty numeral).                                         *)

\* the bits the test suite sets, clears and reads: range(128)
FlagWidth == 128

RECURSIVE Pow2(_)
Pow2(k) == IF k = 0 THEN 1 ELSE 2 * Pow2(k - 1)

\* the limb of weight 65536^i
LimbAt(x, i) == IF i + 1 <= Len(x) THEN x[i + 1] ELSE 0

\* the numeral without zero limbs at its end
RECURSIVE Trim(_)
Trim(x) == IF x # <<>> /\ x[Len(x)] = 0 THEN Trim(SubSeq(x, 1, Len(x) - 1)) ELSE x

\* the numeral with limb i replaced
WithLimb(x, i, limb) ==
    Trim([k \in 1..(IF i + 1 > Len(x) THEN i + 1 ELSE Len(x)) |->
             IF k = i + 1 THEN limb ELSE LimbAt(x, k - 1)])

\* Flags.get_flag: bool((flags >> bit) & 1)
get_flag(flags, bit) == (LimbAt(flags, bit \div 16) \div Pow2(bit % 16)) % 2 = 1

\* Flags.set_flag: flags |= 1 << bit
set_flag(flags, bit) ==
    IF get_flag(flags, bit) THEN flags
    ELSE WithLimb(flags, bit \div 16, LimbAt(flags, bit \div 16) + Pow2(bit % 16))

\* a faulty unset_flag: flags &= 1 << bit
unset_flag_masking(flags, bit) ==
    IF get_flag(flags, bit) THEN WithLimb(<<>>, bit \div 16, Pow2(bit % 16)) ELSE <<>>

\* Flags.unset_flag: flags &= ~(1 << bit)
unset_flag(flags, bit) ==
    IF get_flag(flags, bit)
    THEN WithLimb(flags, bit \div 16, LimbAt(flags, bit \div 16) - Pow2(bit % 16))
    ELSE flags

\* a Python value given to Flags(...): an int, or a value of another type
PyValue(type, v) == [type |-> type, v |-> v]

\* a Flags object, and what a constructor call that raises leaves
FlagsObject(flags) == [cls |-> "Flags", flags |-> flags]
NoFlags == [cls |-> "none", flags |-> <<>>]

\* Flags.__init__: TypeError unless the argument is an int
Flags_init(arg) ==
    IF arg.type # "int" THEN [err |-> "TypeError", obj |-> NoFlags]
    ELSE [err |-> "ok", obj |-> FlagsObject(arg.v)]

\* Flags.__eq__ on two Flags objects
Flags_eq(x, y) == x.flags = y.flags

\* the ints of the run: 0, 32, 0x8000, 0x10000, and 0xFFFF...FF of 128 bits
FlagInts ==
    {<<>>, <<32>>, <<32768>>, <<0, 1>>, <<65535, 65535, 65535, 65535, 65535, 65535, 65535, 65535>>}

\* the arguments Flags is constructed with
FlagArgs == {PyValue("int", v) : v \in FlagInts}
            \cup {PyValue("str", <<1>>), PyValue("float", <<3>>), PyValue("Flags", <<>>)}

\* the bits set and cleared one at a time
FlagBits == {0, 5, 15, 16, 127}

\* heap[1] is a Flags object, heap[2] one constructed later; either single
\* bits are set and cleared ("free"), or every bit of Flags(0) is set and
\* then cleared, in the order of range(128) ("sweep", assigned.pos the
\* number of calls made)
InitFlags ==
    \E v \in FlagInts, mode \in {"free", "sweep"} :
        /\ mode = "sweep" => v = <<>>
        /\ heap = <<FlagsObject(v), NoFlags>>
        /\ assigned = [mode |-> mode, pos |-> 0]
        /\ wire = <<>>
        /\ bundles = [b \in BundleIds |-> NoBundle]
        /\ last = Call("none", 0, NoneArg, NonePrimary, <<>>, "ok")
        /\ out = NoOut
        /\ calls = 0

\* heap[1].set_flag(bit)
SetFlag(bit) ==
    /\ calls < MaxCalls
    /\ assigned.mode = "free"
    /\ heap' = [heap EXCEPT ![1].flags = set_flag(@, bit)]
    /\ last' = Call("set_flag", 0, NoneArg, NonePrimary, <<bit>>, "ok")
    /\ out' = NoOut
    /\ calls' = calls + 1
    /\ UNCHANGED <<bundles, wire, assigned>>

\* heap[1].unset_flag(bit)
UnsetFlag(bit) ==
    /\ calls < MaxCalls
    /\ assigned.mode = "free"
    /\ heap' = [heap EXCEPT ![1].flags = unset_flag(@, bit)]
    /\ last' = Call("unset_flag", 0, NoneArg, NonePrimary, <<bit>>, "ok")
    /\ out' = NoOut
    /\ calls' = calls + 1
    /\ UNCHANGED <<bundles, wire, assigned>>

\* for bit in range(128): heap[1].set_flag(bit), one call at a time
SweepSet ==
    /\ assigned.mode = "sweep"
    /\ assigned.pos < FlagWidth
    /\ heap' = [heap EXCEPT ![1].flags = set_flag(@, assigned.pos)]
    /\ assigned' = [assigned EXCEPT !.pos = @ + 1]
    /\ last' = Call("set_flag", 0, NoneArg, NonePrimary, <<assigned.pos>>, "ok")
    /\ out' = NoOut
    /\ UNCHANGED <<bundles, wire, calls>>

\* then for bit in range(128): heap[1].unset_flag(bit)
SweepUnset ==
    /\ assigned.mode = "sweep"
    /\ assigned.pos >= FlagWidth
    /\ assigned.pos < 2 * FlagWidth
    /\ heap' = [heap EXCEPT ![1].flags = unset_flag(@, assigned.pos - FlagWidth)]
    /\ assigned' = [assigned EXCEPT !.pos = @ + 1]
    /\ last' = Call("unset_flag", 0, NoneArg, NonePrimary, <<assigned.pos - FlagWidth>>, "ok")
    /\ out' = NoOut
    /\ UNCHANGED <<bundles, wire, calls>>

\* heap[2] = Flags(arg); wire keeps the argument
NewFlags(arg) ==
    /\ calls < MaxCalls
    /\ assigned.mode = "free"
    /\ LET r == Flags_init(arg)
       IN  /\ heap' = IF r.err = "ok" THEN [heap EXCEPT ![2] = r.obj] ELSE heap
           /\ last' = Call("Flags", 0, NoneArg, NonePrimary, <<>>, r.err)
    /\ wire' = <<arg>>
    /\ out' = NoOut
    /\ calls' = calls + 1
    /\ UNCHANGED <<bundles, assigned>>

\* out = (heap[1] == heap[2])
FlagsEq ==
    /\ heap[2] # NoFlags
    /\ out' = [kind |-> "bool", v |-> Flags_eq(heap[1], heap[2])]
    /\ last' = Call("flags_eq", 0, NoneArg, NonePrimary, <<>>, "ok")
    /\ UNCHANGED <<heap, bundles, wire, calls, assigned>>

NextFlags ==
    \/ \E bit \in FlagBits : SetFlag(bit)
    \/ \E bit \in FlagBits : UnsetFlag(bit)
    \/ SweepSet
    \/ SweepUnset
    \/ \E arg \in FlagArgs : NewFlags(arg)
    \/ FlagsEq

SpecFlags == InitFlags /\ [][NextFlags]_vars

----------------------------------------------------------------------------
(* Two threads, each in one insert_canonical_block call for a block that   *)
(* is no PayloadBlock.  assigned[t] is the thread: the Bundle and the      *)
(* block of its call, the statement it is at and the value it has read.    *)
(* wire is the lock around the calls, if the callers use one.              *)

ThreadIds == {1, 2}

\* a faulty increment: the counter keeps its value
IncrementedCounter_same(read) == read

\* self._cur_block_number += 1, from the value read to the value written
IncrementedCounter(read) == read + 1

Thread(b, id, pc, tmp) == [b |-> b, id |-> id, pc |-> pc, tmp |-> tmp]

\* the blocks the two calls insert: every block of the run that is no
\* payload block and that no Bundle holds
RaceBlocks == AllBlockIds \ (OfClass("PayloadBlock") \cup OfClass("PreviousNodeBlock"))

\* Bundle 1 was constructed with a previous node block, Bundle 2 with no
\* block; the two calls are on the same Bundle or on the two, for two
\* different blocks, with or without a lock
InitRace ==
    \E b1 \in BundleIds, b2 \in BundleIds, id1 \in RaceBlocks, id2 \in RaceBlocks, locked \in BOOLEAN :
        LET first == BundleInit(PrimaryFromObjects(TRUE, 5), <<CHOOSE id \in OfClass("PreviousNodeBlock") : TRUE>>, Blocks)
            second == BundleInit(PrimaryFromObjects(TRUE, 5), <<>>, first.heap)
        IN  /\ id1 # id2
            /\ heap = second.heap
            /\ bundles = <<first.bundle, second.bundle>>
            /\ assigned = <<Thread(b1, id1, "start", 0), Thread(b2, id2, "start", 0)>>
            /\ wire = [locked |-> locked, holder |-> 0]
            /\ last = Call("none", 0, NoneArg, NonePrimary, <<>>, "ok")
            /\ out = NoOut
            /\ calls = 0

\* thread t may run: there is no lock, or it is free or its own
MayRun(t) == ~wire.locked \/ wire.holder \in {0, t}

\* thread t enters the call, taking the lock if there is one
Enter(t) ==
    /\ assigned[t].pc = "start"
    /\ MayRun(t)
    /\ wire' = IF wire.locked THEN [wire EXCEPT !.holder = t] ELSE wire
    /\ assigned' = [assigned EXCEPT ![t].pc = "read"]
    /\ UNCHANGED <<heap, bundles, last, out, calls>>

\* block.block_number = self._cur_block_number: the counter is read
ReadCounter(t) ==
    /\ assigned[t].pc = "read"
    /\ MayRun(t)
    /\ assigned' = [assigned EXCEPT ![t].pc = "number",
                                     ![t].tmp = bundles[assigned[t].b].cur_block_number]
    /\ UNCHANGED <<heap, bundles, last, out, wire, calls>>

\* block.block_number = self._cur_block_number: the number is written
WriteNumber(t) ==
    /\ assigned[t].pc = "number"
    /\ MayRun(t)
    /\ heap' = [heap EXCEPT ![assigned[t].id].block_number = assigned[t].tmp]
    /\ assigned' = [assigned EXCEPT ![t].pc = "incr_read"]
    /\ UNCHANGED <<bundles, last, out, wire, calls>>

\* self._cur_block_number += 1: the counter is read
IncrementRead(t) ==
    /\ assigned[t].pc = "incr_read"
    /\ MayRun(t)
    /\ assigned' = [assigned EXCEPT ![t].pc = "incr_write",
                                     ![t].tmp = bundles[assigned[t].b].cur_block_number]
    /\ UNCHANGED <<heap, bundles, last, out, wire, calls>>

\* self._cur_block_number += 1: the sum is written
IncrementWrite(t) ==
    /\ assigned[t].pc = "incr_write"
    /\ MayRun(t)
    /\ bundles' = [bundles EXCEPT ![assigned[t].b].cur_block_number = IncrementedCounter(assigned[t].tmp)]
    /\ assigned' = [assigned EXCEPT ![t].pc = "lookup"]
    /\ UNCHANGED <<heap, last, out, wire, calls>>

\* the call of thread t returns or raises: the lock is released
Leave(t, err) ==
    /\ assigned' = [assigned EXCEPT ![t].pc = "done"]
    /\ wire' = [wire EXCEPT !.holder = 0]
    /\ last' = Call("insert", assigned[t].b, BlockArg(assigned[t].id), NonePrimary, <<t>>, err)

\* the class is looked up (ValueError for an unknown one); a generic block
\* is appended to other_blocks; for a singleton class the slot is read
\* (ValueError when it is occupied)
LookUp(t) ==
    /\ assigned[t].pc = "lookup"
    /\ MayRun(t)
    /\ LET cls == heap[assigned[t].id].cls
           bu == bundles[assigned[t].b]
       IN  IF cls \notin DOMAIN block_type_dict
           THEN Leave(t, "UnknownBlockType") /\ UNCHANGED bundles
           ELSE IF cls = "CanonicalBlock"
           THEN /\ bundles' = [bundles EXCEPT ![assigned[t].b].other_blocks = Append(@, assigned[t].id)]
                /\ Leave(t, "ok")
           ELSE IF GetSlot(bu, block_type_dict[cls]) # None
           THEN Leave(t, "DuplicateBlock") /\ UNCHANGED bundles
           ELSE /\ assigned' = [assigned EXCEPT ![t].pc = "store"]
                /\ UNCHANGED <<bundles, last, wire>>
    /\ UNCHANGED <<heap, out, calls>>

\* setattr(self, block_field, block) after the slot was read as None
StoreSlot(t) ==
    /\ assigned[t].pc = "store"
    /\ MayRun(t)
    /\ bundles' = [bundles EXCEPT ![assigned[t].b] =
                       SetSlot(@, block_type_dict[heap[assigned[t].id].cls], assigned[t].id)]
    /\ Leave(t, "ok")
    /\ UNCHANGED <<heap, out, calls>>

NextRace ==
    \E t \in ThreadIds :
        \/ Enter(t)
        \/ ReadCounter(t)
        \/ WriteNumber(t)
        \/ IncrementRead(t)
        \/ IncrementWrite(t)
        \/ LookUp(t)
        \/ StoreSlot(t)

SpecRace == InitRace /\ [][NextRace]_vars

----------------------------------------------------------------------------
(* DTNWSClient: the mode of the websocket connection *)
(* heap is the client object, wire the connection of its WebSocketApp.     *)

\* the events of one run of the client
MaxEvents == 5

\* WSMode
DATA_MODE == 0
JSON_MODE == 1

_SUBSCRIBE_ENDPOINT == "/subscribe"
_DATA_MODE == "/data"
_JSON_MODE == "/json"

\* a connection the daemon has just accepted: no mode commanded, nothing
\* sent yet
NewConnection == [open |-> TRUE, commanded |-> "none", sent |-> <<>>]

\* a message to the daemon: a command with its argument, or a payload in
\* an encoding
Message(command, arg) == [command |-> command, arg |-> arg]

\* WebSocketApp.send(data) on an open connection: the daemon receives the
\* message, and a mode command puts the connection into that mode
ws_send(conn, data) ==
    [conn EXCEPT !.sent = Append(@, data),
                 !.commanded = IF data.command \in {_DATA_MODE, _JSON_MODE} THEN data.command ELSE @]

RECURSIVE ws_send_all(_, _)
ws_send_all(conn, msgs) ==
    IF msgs = <<>> THEN conn ELSE ws_send_all(ws_send(conn, Head(msgs)), Tail(msgs))

\* DTNWSClient.__init__: data mode, not running, the endpoints given
InitClient ==
    /\ heap \in {[mode |-> DATA_MODE, running |-> FALSE, endpoints |-> e] :
                    e \in {<<>>, <<"dtn://node1/incoming">>}}
    /\ bundles = [b \in BundleIds |-> NoBundle]
    /\ last = Call("none", 0, NoneArg, NonePrimary, <<>>, "ok")
    /\ out = NoOut
    /\ wire = [open |-> FALSE, commanded |-> "none", sent |-> <<>>]
    /\ calls = 0
    /\ assigned = [b \in BundleIds |-> {}]

\* the connection opens and the WebSocketApp calls _on_open: '/data', one
\* subscription for each endpoint, then _running = True.  failAt is the
\* send that raises (0: none does); what follows it is not executed.
_on_open(failAt) ==
    /\ calls < MaxEvents
    /\ ~wire.open
    /\ LET msgs == <<Message(_DATA_MODE, "")>> \o [i \in 1..Len(heap.endpoints) |-> Message(_SUBSCRIBE_ENDPOINT, heap.endpoints[i])]
       IN  /\ failAt \in 0..Len(msgs)
           /\ wire' = ws_send_all(NewConnection, IF failAt = 0 THEN msgs ELSE SubSeq(msgs, 1, failAt - 1))
           /\ heap' = [heap EXCEPT !.running = IF failAt = 0 THEN TRUE ELSE @]
           /\ last' = Call("_on_open", 0, NoneArg, NonePrimary, <<>>, IF failAt = 0 THEN "ok" ELSE "WebSocketException")
    /\ out' = NoOut
    /\ calls' = calls + 1
    /\ UNCHANGED <<bundles, assigned>>

\* the connection closes and the WebSocketApp calls _on_close
_on_close ==
    /\ calls < MaxEvents
    /\ wire.open
    /\ wire' = [wire EXCEPT !.open = FALSE]
    /\ heap' = [heap EXCEPT !.running = FALSE]
    /\ last' = Call("_on_close", 0, NoneArg, NonePrimary, <<>>, "ok")
    /\ out' = NoOut
    /\ calls' = calls + 1
    /\ UNCHANGED <<bundles, assigned>>

\* the argument of a mode assignment
ModeArg(val) == [kind |-> "mode", id |-> val, p |-> NonePrimary]

\* client.mode = val: the command is sent when val differs from _mode, and
\* _mode is assigned when the send has returned.  The send raises on a
\* connection that is not open, and may raise on one that is (ok = FALSE).
mode_setter(val, ok) ==
    /\ calls < MaxEvents
    /\ LET command == IF val = DATA_MODE THEN _DATA_MODE ELSE _JSON_MODE
           raises == val # heap.mode /\ ~(wire.open /\ ok)
       IN  /\ wire' = IF val # heap.mode /\ ~raises THEN ws_send(wire, Message(command, "")) ELSE wire
           /\ heap' = IF raises THEN heap ELSE [heap EXCEPT !.mode = val]
           /\ last' = Call("mode", 0, ModeArg(val), NonePrimary, <<>>, IF raises THEN "WebSocketException" ELSE "ok")
    /\ out' = NoOut
    /\ calls' = calls + 1
    /\ UNCHANGED <<bundles, assigned>>

\* client.send_data(destination, data): the bundle dict encoded as CBOR in
\* data mode and as JSON otherwise, sent as a binary message
send_data ==
    /\ calls < MaxEvents
    /\ LET payload == Message("payload", IF heap.mode = DATA_MODE THEN "cbor" ELSE "json")
       IN  /\ wire' = IF wire.open THEN ws_send(wire, payload) ELSE wire
           /\ out' = [kind |-> "payload", v |-> payload]
           /\ last' = Call("send_data", 0, NoneArg, NonePrimary, <<>>, IF wire.open THEN "ok" ELSE "WebSocketException")
    /\ calls' = calls + 1
    /\ UNCHANGED <<heap, bundles, assigned>>

NextClient ==
    \/ \E failAt \in 0..2 : _on_open(failAt)
    \/ _on_close
    \/ \E val \in {DATA_MODE, JSON_MODE}, ok \in BOOLEAN : mode_setter(val, ok)
    \/ send_data

SpecClient == InitClient /\ [][NextClient]_vars

----------------------------------------------------------------------------
(* The claims about block numbering, cardinality and the primary block,   *)
(* checked under Spec                                                      *)

\* the classes with a singleton slot
SingletonClasses == {"PreviousNodeBlock", "BundleAgeBlock", "HopCountBlock", "PayloadBlock"}

\* the occupant of the singleton slot of class cls
SlotOfClass(bu, cls) ==
    CASE cls = "PreviousNodeBlock" -> bu.previous_node_block
      [] cls = "BundleAgeBlock" -> bu.bundle_age_block
      [] cls = "HopCountBlock" -> bu.hop_count_block
      [] cls = "PayloadBlock" -> bu.payload_block

\* the block objects a Bundle holds: its four slots and its other_blocks
HeldIds(bu) ==
    ({bu.previous_node_block, bu.bundle_age_block, bu.hop_count_block, bu.payload_block}
        \ {None})
    \cup {bu.other_blocks[i] : i \in 1..Len(bu.other_blocks)}

\* C1: in every Bundle, the payload block (if present) has block number 1,
\* no other held block has number 0 or 1, and two different held blocks
\* never have the same number.
C1_BlockNumbersDistinct ==
    \A b \in BundleIds :
        bundles[b] # NoBundle =>
            LET bu == bundles[b] IN
            /\ bu.payload_block # None => heap[bu.payload_block].block_number = 1
            /\ \A id \in HeldIds(bu) \ {bu.payload_block} :
                   heap[id].block_number \notin {0, 1}
            /\ \A x, y \in HeldIds(bu) :
                   x # y => heap[x].block_number # heap[y].block_number

\* C2: insert_canonical_block of a block of a singleton class fails with
\* DuplicateBlock (a ValueError) and keeps the occupant when the slot of
\* its class is occupied, and succeeds and makes the block the occupant
\* when the slot is empty.
C2_SingletonInsert ==
    [][(last'.op = "insert" /\ heap[last'.arg.id].cls \in SingletonClasses) =>
              LET id == last'.arg.id
                  before == SlotOfClass(bundles[last'.b], heap[id].cls)
                  after == SlotOfClass(bundles'[last'.b], heap[id].cls)
              IN  IF before # None
                  THEN /\ last'.err = "DuplicateBlock"
                       /\ ExceptionClass(last'.err) = "ValueError"
                       /\ after = before
                  ELSE /\ last'.err = "ok"
                       /\ after = id]_vars

\* C2 witness: an insert into a Bundle with occupied payload and bundle-age
\* slots has just been refused
C2_Witness ==
    /\ last.op = "insert" /\ last.err = "DuplicateBlock"
    /\ bundles[1] # NoBundle
    /\ bundles[1].payload_block # None
    /\ bundles[1].bundle_age_block # None

\* every block of the list can be inserted, one after the other, into an
\* empty Bundle: its class is one the Bundle knows, and no two blocks of the
\* list are of the same singleton class
AllInsertable(ids) ==
    /\ \A i \in 1..Len(ids) : Blocks[ids[i]].cls \in SingletonClasses \cup {"CanonicalBlock"}
    /\ \A i, j \in 1..Len(ids) :
           (i < j /\ Blocks[ids[i]].cls \in SingletonClasses)
               => Blocks[ids[i]].cls # Blocks[ids[j]].cls

\* C3: constructing a Bundle fails with MissingRequiredBlock (a ValueError)
\* exactly when all supplied blocks were inserted without error, the
\* creation time is 0 and no bundle-age block is among them; creation time 0
\* with a bundle-age block, and a non-zero creation time with no blocks,
\* succeed.
C3_MissingRequiredBlock ==
    last.op = "construct" =>
        LET p == last.primary
            ids == last.ids
            noAge == \A i \in 1..Len(ids) : Blocks[ids[i]].cls # "BundleAgeBlock"
        IN  /\ (last.err = "MissingRequiredBlock")
                  <=> (AllInsertable(ids) /\ p.bundle_creation_time = 0 /\ noAge)
            /\ last.err = "MissingRequiredBlock"
                  => (ExceptionClass(last.err) = "ValueError" /\ bundles[last.b] = NoBundle)
            /\ (p.bundle_creation_time = 0 /\ AllInsertable(ids) /\ ~noAge)
                  => (last.err = "ok" /\ bundles[last.b] # NoBundle)
            /\ (p.bundle_creation_time # 0 /\ ids = <<>>)
                  => (last.err = "ok" /\ bundles[last.b] # NoBundle)

\* C3 witness: a constructor call has just failed for the missing block
C3_Witness ==
    /\ last.op = "construct" /\ last.b = 1 /\ last.err = "MissingRequiredBlock"
    /\ bundles[1] = NoBundle

\* C4: a constructed Bundle whose primary block has creation time 0 always
\* has a bundle-age block.
C4_BundleAgeMandatory ==
    \A b \in BundleIds :
        (/\ bundles[b] # NoBundle
         /\ bundles[b].primary_block # NonePrimary
         /\ bundles[b].primary_block.bundle_creation_time = 0)
            => bundles[b].bundle_age_block # None

\* C5: no call takes the primary block away from a Bundle or changes it.
C5_PrimaryBlockKept ==
    [][\A b \in BundleIds :
          bundles[b] # NoBundle =>
              /\ bundles'[b] # NoBundle
              /\ bundles'[b].primary_block # NonePrimary
              /\ bundles'[b].primary_block = bundles[b].primary_block]_vars

\* C10: the first non-payload block a Bundle takes in gets number 2, and
\* every later one a number greater than all the numbers the Bundle has
\* given before.
C10_MonotonicNumbers ==
    [][(/\ last'.op = "insert" /\ last'.err = "ok"
        /\ ~IsPayloadInstance(heap[last'.arg.id].cls)) =>
              LET n == heap'[last'.arg.id].block_number
              IN  /\ assigned[last'.b] = {} => n = 2
                  /\ \A m \in assigned[last'.b] : n > m]_vars

----------------------------------------------------------------------------
(* The claims about the wire codec, checked under SpecWire, SpecLong and   *)
(* SpecDecode                                                              *)

\* C6: decoding the encoding of a Bundle gives a Bundle equal to it.
C6_RoundTrip ==
    last.op = "round_trip" =>
        /\ last.err = "ok"
        /\ Bundle_eq(out.v, BundleValue(bundles[last.b], heap))

\* C7: to_cbor returns the byte 0x9f, the encoding of each array of
\* to_block_data in order, and the byte 0xff, whatever the number of blocks.
C7_IndefiniteFraming ==
    last.op = "to_cbor" =>
        /\ last.err = "ok"
        /\ LET arrays == Bundle_to_block_data(bundles[last.b], heap).v
           IN  out.v = <<Byte(159)>> \o [i \in 1..Len(arrays) |-> Enc(arrays[i])]
                          \o <<Byte(255)>>

\* the wire array of the occupant of a slot, if there is one
SlotArrays(h, id) ==
    IF id = None THEN <<>> ELSE <<CanonicalBlock_to_block_data(h[id])>>

\* C8: to_block_data returns the primary block's array, then the arrays of
\* the previous-node, bundle-age, hop-count and payload blocks that are
\* present, then those of other_blocks in insertion order, and changes
\* neither the Bundle nor a block.
C8_ToBlockDataOrder ==
    [][last'.op = "to_block_data" =>
          LET bu == bundles[last'.b] IN
          /\ last'.err = "ok"
          /\ out'.v = <<PrimaryBlock_to_block_data(bu.primary_block)>>
                      \o SlotArrays(heap, bu.previous_node_block)
                      \o SlotArrays(heap, bu.bundle_age_block)
                      \o SlotArrays(heap, bu.hop_count_block)
                      \o SlotArrays(heap, bu.payload_block)
                      \o [i \in 1..Len(bu.other_blocks) |->
                             CanonicalBlock_to_block_data(heap[bu.other_blocks[i]])]
          /\ UNCHANGED <<bundles, heap>>]_vars

\* the decoded array starts with a primary block array and goes on with
\* block arrays that each decode
WellFormed(blocks) ==
    /\ blocks # <<>>
    /\ PrimaryBlock_from_block_data(blocks[1]).err = "ok"
    /\ \A i \in 2..Len(blocks) : CanonicalBlock_from_block_data(blocks[i]).err = "ok"

\* two block arrays of the decoded array have the same singleton type code
TwoOfASingleton(blocks) ==
    \E i, j \in 2..Len(blocks) :
        i < j /\ blocks[i][1] = blocks[j][1] /\ blocks[i][1] \in {1, 6, 7, 10}

\* C9: from_block_data fails with DuplicateBlock on two block arrays of one
\* singleton type code, with MissingRequiredBlock on creation time 0 without
\* a bundle-age block array, with a ValueError on an empty array, and fails
\* as a whole when one block array does not decode; a failed decode returns
\* no Bundle.
C9_DecodeChecks ==
    last.op = "from_block_data" =>
        /\ (WellFormed(wire) /\ TwoOfASingleton(wire)) => last.err = "DuplicateBlock"
        /\ (/\ WellFormed(wire) /\ ~TwoOfASingleton(wire)
            /\ wire[1][7][1] = 0
            /\ \A i \in 2..Len(wire) : wire[i][1] # 7) => last.err = "MissingRequiredBlock"
        /\ wire = <<>> => ExceptionClass(last.err) = "ValueError"
        /\ ~WellFormed(wire) => last.err # "ok"
        /\ last.err # "ok" => out.v = NoValue

----------------------------------------------------------------------------
(* The claims about remove_block and about decoding single blocks          *)

\* the sequence q without its i-th element
WithoutIndex(q, i) == [j \in 1..(Len(q) - 1) |-> IF j < i THEN q[j] ELSE q[j + 1]]

\* the singleton classes whose slot holds a block equal to block x
SlotsHolding(bu, h, x) ==
    {cls \in SingletonClasses :
        SlotOfClass(bu, cls) # None /\ h[SlotOfClass(bu, cls)] = x}

\* C11: remove_block of a block equal to the occupant of a singleton slot
\* empties exactly that slot; otherwise, of a block equal to one in
\* other_blocks, removes exactly one such element; otherwise changes no
\* slot, not other_blocks and not the counter.  Nothing else changes, and
\* no error is raised.
C11_RemoveFrame ==
    [][last'.op = "remove" =>
          LET bu == bundles[last'.b]
              after == bundles'[last'.b]
              arg == last'.arg
          IN  /\ last'.err = "ok"
              /\ heap' = heap
              /\ \A b \in BundleIds \ {last'.b} : bundles'[b] = bundles[b]
              /\ IF arg.kind = "block" /\ SlotsHolding(bu, heap, heap[arg.id]) # {}
                 THEN \E cls \in SlotsHolding(bu, heap, heap[arg.id]) :
                          /\ SlotOfClass(after, cls) = None
                          /\ after = SetSlot(bu, block_type_dict[cls], None)
                 ELSE IF /\ arg.kind = "block"
                         /\ \E i \in 1..Len(bu.other_blocks) :
                                heap[bu.other_blocks[i]] = heap[arg.id]
                 THEN \E i \in 1..Len(bu.other_blocks) :
                          /\ heap[bu.other_blocks[i]] = heap[arg.id]
                          /\ after = [bu EXCEPT !.other_blocks = WithoutIndex(@, i)]
                 ELSE /\ \A cls \in SingletonClasses :
                             SlotOfClass(after, cls) = SlotOfClass(bu, cls)
                      /\ after.other_blocks = bu.other_blocks
                      /\ after.cur_block_number = bu.cur_block_number]_vars

\* C11 witness: the Bundle gave numbers to blocks it took in, and after a
\* remove_block call holds none
C11_Witness ==
    /\ last.op = "remove" /\ last.arg.kind = "block"
    /\ bundles[1] # NoBundle
    /\ assigned[1] # {}
    /\ HeldIds(bundles[1]) = {}

\* C12: decoding a five-element block array with a block type code in
\* 11..191 fails and returns no block.
C12_UnassignedTypeRejected ==
    (last.op = "block_from_block_data" /\ Len(wire) = 5 /\ wire[1] \in 11..191) =>
        /\ last.err # "ok"
        /\ out.v = NoneBlock

----------------------------------------------------------------------------
(* The claims about decoding a primary block array, checked under          *)
(* SpecPrimary                                                             *)

\* C14: PrimaryBlock.from_block_data fails with ValueError on every array
\* of fewer than 8 or more than 11 elements and with NotImplementedError on
\* every array of 9, 10 or 11 elements, whatever the elements are.
C14_PrimaryLength ==
    last.op = "primary_from_block_data" =>
        /\ Len(wire) \notin 8..11 => last.err = "ValueError"
        /\ Len(wire) \in 9..11 => last.err = "NotImplementedError"
        /\ last.err # "ok" => out.v = NonePrimary

\* C14 witness: an array of nine elements whose destination is no array
\* has been refused for its length
C14_Witness ==
    /\ last.op = "primary_from_block_data" /\ last.err = "NotImplementedError"
    /\ Len(wire) = 9
    /\ IsScalar(wire[4])

\* C15: an array of 8 elements in which an endpoint or the timestamp has
\* fewer than two items or is no array fails with ValueError.
C15_MalformedShape ==
    (/\ last.op = "primary_from_block_data"
     /\ Len(wire) = 8
     /\ \E i \in 4..7 : IsScalar(wire[i]) \/ Len(wire[i]) < 2) => last.err = "ValueError"

\* an array of 8 elements whose endpoints and timestamp are arrays of two
WellShaped(a) ==
    Len(a) = 8 /\ \A i \in 4..7 : ~IsScalar(a[i]) /\ Len(a[i]) >= 2

\* C16: a well-shaped array is accepted exactly when its version is 7 and
\* its three scheme codes are 1 or 2; check_uri_scheme passes 1 and 2 only;
\* another version fails with NotImplementedError, also when a scheme code
\* is invalid, and an invalid scheme code with version 7 with ValueError.
C16_VersionAndSchemes ==
    /\ \A c \in SchemeCodes : check_uri_scheme(c) = "ok" <=> c \in {1, 2}
    /\ (last.op = "primary_from_block_data" /\ WellShaped(wire)) =>
          LET schemesOk == \A i \in 4..6 : wire[i][1] \in {1, 2}
          IN  /\ last.err = "ok" <=> (wire[1] = 7 /\ schemesOk)
              /\ wire[1] # 7 => last.err = "NotImplementedError"
              /\ (wire[1] = 7 /\ ~schemesOk) => last.err = "ValueError"

\* C16 witness: an array with another version and a reserved destination
\* scheme code has been refused for its version
C16_Witness ==
    /\ last.op = "primary_from_block_data" /\ last.err = "NotImplementedError"
    /\ WellShaped(wire)
    /\ wire[1] = 6
    /\ wire[4][1] = 0

\* C17: a primary block array of 8 elements with a CRC type other than 0
\* or the is_fragment bit set, and a block array of 5 elements with a CRC
\* type other than 0, are refused; no decoded Bundle has such a block.
C17_CrcAndFragmentsRejected ==
    /\ (/\ last.op = "primary_from_block_data"
        /\ Len(wire) = 8
        /\ (wire[3] # 0 \/ wire[2] % 2 = 1)) => last.err # "ok"
    /\ (last.op = "block_from_block_data" /\ Len(wire) = 5 /\ wire[4] # 0) => last.err # "ok"
    /\ (last.op = "from_block_data" /\ last.err = "ok") =>
          /\ out.v.primary_block.crc_type = 0
          /\ out.v.primary_block.bundle_processing_control_flags % 2 = 0
          /\ \A i \in 1..Len(out.v.other_blocks) : out.v.other_blocks[i].crc_type = 0
          /\ \A blk \in {out.v.previous_node_block, out.v.bundle_age_block,
                         out.v.hop_count_block, out.v.payload_block} :
                 blk # NoneBlock => blk.crc_type = 0

----------------------------------------------------------------------------
(* Endpoint URIs *)

\* a decimal numeral without sign and without leading zeros
Numeral(q) ==
    /\ q # <<>>
    /\ \A i \in 1..Len(q) : IndexOf(Digits, q[i]) # 0
    /\ Len(q) > 1 => q[1] # "0"

\* the canonical well-formed URIs: a dtn URI with any specific part,
\* ipn://none, and ipn://N.M with two numerals
CanonicalUri(u) ==
    LET i == IndexOf(u, ":")
        name == SubSeq(u, 1, i - 1)
        part == SubSeq(u, i + 1, Len(u))
        numbers == Split(SubSeq(part, 3, Len(part)), ".")
    IN  /\ i # 0
        /\ \/ name = URI_SCHEME_DTN_NAME
           \/ /\ name = URI_SCHEME_IPN_NAME
              /\ \/ part = NONE_ENDPOINT_SPECIFIC_PART_NAME
                 \/ /\ Len(part) >= 2
                    /\ SubSeq(part, 1, 2) = <<"/", "/">>
                    /\ Len(numbers) = 2
                    /\ \A k \in 1..2 : Numeral(numbers[k])

\* the well-formed endpoints: the sentinel 0 with either scheme, a str other
\* than //none with dtn, a pair of non-negative integers with ipn
WellFormedEndpoint(scheme, part) ==
    \/ scheme \in {URI_SCHEME_DTN_ENCODED, URI_SCHEME_IPN_ENCODED} /\ part = NONE_ENDPOINT_SPECIFIC_PART_ENCODED
    \/ scheme = URI_SCHEME_DTN_ENCODED /\ part.kind = "str" /\ part.s # NONE_ENDPOINT_SPECIFIC_PART_NAME
    \/ scheme = URI_SCHEME_IPN_ENCODED /\ part.kind \in {"tuple", "list"} /\ Len(part.n) = 2 /\ \A k \in 1..2 : part.n[k] >= 0

\* C18: a canonical well-formed URI survives from_full_uri followed by
\* to_full_uri, and a well-formed endpoint (scheme, specific part) survives
\* to_full_uri followed by from_full_uri, the result being equal to the
\* argument as Python compares them
C18_UriRoundTrip ==
    /\ (last.op = "from_full_uri" /\ CanonicalUri(wire.uri))
           => (out.v.err = "ok" /\ out.back.err = "ok" /\ out.back.uri = wire.uri)
    /\ (last.op = "to_full_uri" /\ WellFormedEndpoint(wire.scheme, wire.part))
           => (/\ out.v.err = "ok"
               /\ out.back.err = "ok"
               /\ out.back.scheme = wire.scheme
               /\ out.back.part = wire.part)

\* a str that is an integer literal of a non-negative integer
NonNegativeInteger(q) == ParseInt(q).err = "ok" /\ ParseInt(q).v >= 0

\* the URIs the parser is to accept: scheme name dtn, or scheme name ipn
\* with //none or with // followed by two non-negative integers and a '.'
\* between them
AcceptableUri(u) ==
    LET i == IndexOf(u, ":")
        name == SubSeq(u, 1, i - 1)
        part == SubSeq(u, i + 1, Len(u))
        numbers == Split(SubSeq(part, 3, Len(part)), ".")
    IN  /\ i # 0
        /\ \/ name = URI_SCHEME_DTN_NAME
           \/ /\ name = URI_SCHEME_IPN_NAME
              /\ \/ part = NONE_ENDPOINT_SPECIFIC_PART_NAME
                 \/ /\ Len(part) >= 2
                    /\ SubSeq(part, 1, 2) = <<"/", "/">>
                    /\ Len(numbers) = 2
                    /\ \A k \in 1..2 : NonNegativeInteger(numbers[k])

\* C19: from_full_uri raises ValueError for every URI that is not
\* acceptable: a scheme name other than dtn or ipn, no ':' at all, or an ipn
\* specific part that is neither //none nor // and two non-negative integers
C19_MalformedUriRejected ==
    (last.op = "from_full_uri" /\ ~AcceptableUri(wire.uri)) => last.err = "ValueError"

----------------------------------------------------------------------------
(* Bundle ids, checked under SpecId *)

\* the four values a bundle id is made of
IdKey(bu) ==
    <<bu.primary_block.source_scheme, bu.primary_block.source_specific_part,
      bu.primary_block.bundle_creation_time, bu.primary_block.sequence_number>>

\* bundle_id is the full source URI, the creation time and the sequence
\* number with '-' between them
IdFormat ==
    last.op = "bundle_id" =>
        /\ last.err = "ok"
        /\ LET p == bundles[last.b].primary_block
           IN  out.v = to_full_uri(p.source_scheme, p.source_specific_part).uri
                          \o <<"-">> \o IntToStr(p.bundle_creation_time)
                          \o <<"-">> \o IntToStr(p.sequence_number)

\* the bundle id of the decoded encoding is the bundle id
IdStable ==
    last.op = "reencoded_bundle_id" =>
        /\ last.err = "ok"
        /\ out.v = bundle_id(bundles[last.b]).v

\* two Bundles that differ in one of the four values differ in bundle id
IdUnique ==
    \A b, c \in BundleIds :
        (/\ bundles[b] # NoBundle /\ bundles[b].primary_block # NonePrimary
         /\ bundles[c] # NoBundle /\ bundles[c].primary_block # NonePrimary
         /\ IdKey(bundles[b]) # IdKey(bundles[c]))
            => bundle_id(bundles[b]).v # bundle_id(bundles[c]).v

\* C20: bundle_id is '<full source URI>-<creation time>-<sequence number>',
\* it is the same after to_cbor and from_cbor, and two Bundles whose source
\* scheme, source specific part, creation time or sequence number differ
\* have different bundle ids
C20_BundleId == IdFormat /\ IdStable /\ IdUnique

----------------------------------------------------------------------------
(* Bundle equality, checked under SpecEq *)

\* the elements of a list
Elements(q) == {q[i] : i \in 1..Len(q)}

\* what equality of two Bundles is to mean: equal primary blocks, equal
\* occupants of the four slots, the same set of other blocks
SameBundle(x, y) ==
    /\ x.primary_block = y.primary_block
    /\ x.previous_node_block = y.previous_node_block
    /\ x.bundle_age_block = y.bundle_age_block
    /\ x.hop_count_block = y.hop_count_block
    /\ x.payload_block = y.payload_block
    /\ Elements(x.other_blocks) = Elements(y.other_blocks)

\* C21: a comparison of two Bundles answers True exactly when their primary
\* blocks are equal, their four slots are pairwise equal and their other
\* blocks are the same set, in whatever order; comparing the Bundles the
\* other way round answers the same, and a Bundle equals itself.
C21_BundleEquality ==
    last.op = "eq" =>
        LET x == BundleValue(bundles[last.b], heap)
            y == BundleValue(bundles[last.ids[1]], heap)
        IN  /\ out.v = SameBundle(x, y)
            /\ out.v = Bundle_eq(y, x)
            /\ Bundle_eq(x, x)

\* C21 witness: two Bundles with the same other blocks in different order
\* have been compared, and the answer was True
C21_Witness ==
    /\ last.op = "eq" /\ out.v = TRUE
    /\ last.b # last.ids[1]
    /\ bundles[last.b].other_blocks # bundles[last.ids[1]].other_blocks
    /\ Len(bundles[last.b].other_blocks) = 2

----------------------------------------------------------------------------
(* The fields of hop count and bundle age blocks, checked under SpecFields *)

\* the block type code, block number, flags and CRC type of a block
Envelope(block) == <<block.cls, block.block_type_code, block.block_number, block.flags, block.crc_type>>

\* C22: whatever was assigned to hop_count and to age_milliseconds, the
\* getters return the value assigned last (the value given to from_objects
\* before the first assignment), hop_limit returns the limit given to
\* from_objects, and the block type code, block number, flags and CRC type
\* of both blocks are those from_objects gave them.
C22_FieldSetters ==
    /\ hop_count(heap[1]) = assigned[1]
    /\ hop_limit(heap[1]) = wire[1]
    /\ Envelope(heap[1]) = <<"HopCountBlock", 10, 1, 0, 0>>
    /\ age_milliseconds(heap[2]) = assigned[2]
    /\ Envelope(heap[2]) = <<"BundleAgeBlock", 7, 1, 0, 0>>

\* C22 witness: from_objects(98, 76), then hop_count = 90 after another
\* assignment, and an age assigned that takes five bytes
C22_Witness ==
    /\ wire[1] = 98 /\ wire[2] = 76
    /\ last.op = "set_hop_count" /\ last.ids = <<90>>
    /\ calls = 3
    /\ age_milliseconds(heap[2]) = 65536

\* C23: the hop limit of a HopCountBlock from from_objects is in 1..255.
C23_HopLimitRange == hop_limit(heap[1]) \in 1..255

----------------------------------------------------------------------------
(* Flags, checked under SpecFlags *)

\* the bits of the numeral that are set, among the first FlagWidth and the
\* next sixteen
BitsSet(flags) == {bit \in 0..(FlagWidth + 15) : get_flag(flags, bit)}

\* C24: set_flag(b) makes get_flag(b) true and unset_flag(b) makes it
\* false, both leave every other bit as it was, and calling either again
\* changes nothing; every bit of Flags(0) set in turn gives the all-ones
\* value of 128 bits, and every bit cleared in turn gives 0 again; two Flags
\* are equal exactly when they have the same bits set; Flags(x) raises
\* TypeError exactly when x is no int.
C24_FlagBits ==
    [][/\ last'.op = "set_flag" =>
            /\ get_flag(heap'[1].flags, last'.ids[1])
            /\ BitsSet(heap'[1].flags) = BitsSet(heap[1].flags) \cup {last'.ids[1]}
            /\ set_flag(heap'[1].flags, last'.ids[1]) = heap'[1].flags
       /\ last'.op = "unset_flag" =>
            /\ ~get_flag(heap'[1].flags, last'.ids[1])
            /\ BitsSet(heap'[1].flags) = BitsSet(heap[1].flags) \ {last'.ids[1]}
            /\ unset_flag(heap'[1].flags, last'.ids[1]) = heap'[1].flags
       /\ (assigned'.mode = "sweep" /\ assigned'.pos = FlagWidth) =>
            /\ heap'[1].flags = [k \in 1..(FlagWidth \div 16) |-> 65535]
            /\ BitsSet(heap'[1].flags) = 0..(FlagWidth - 1)
       /\ (assigned'.mode = "sweep" /\ assigned'.pos = 2 * FlagWidth) => heap'[1].flags = <<>>
       /\ last'.op = "flags_eq" => (out'.v <=> BitsSet(heap[1].flags) = BitsSet(heap[2].flags))
       /\ last'.op = "Flags" =>
            /\ last'.err = (IF wire'[1].type = "int" THEN "ok" ELSE "TypeError")
            /\ last'.err = "ok" => heap'[2].flags = wire'[1].v
            /\ last'.err # "ok" => heap' = heap
      ]_vars

\* C24 witness: every bit has been set and cleared again
C24_Witness ==
    /\ assigned.mode = "sweep" /\ assigned.pos = 2 * FlagWidth
    /\ last.op = "unset_flag" /\ last.ids = <<FlagWidth - 1>>

----------------------------------------------------------------------------
(* Concurrent inserts, checked under SpecRace *)

\* two different blocks the Bundle holds have the same block number
SameNumberTwice(bu, h) ==
    \E x, y \in HeldIds(bu) : x # y /\ h[x].block_number = h[y].block_number

\* C25: when the two calls are made under a lock, or on two different
\* Bundles, no Bundle ever holds two blocks with the same block number;
\* without the lock and on the same Bundle such a state is reachable (the
\* witness).
C25_SerializedInsertsSafe ==
    (wire.locked \/ assigned[1].b # assigned[2].b) =>
        \A b \in BundleIds : ~SameNumberTwice(bundles[b], heap)

\* C25 witness: two calls on the same Bundle without a lock have returned,
\* and the Bundle holds two blocks with the same block number
C25_Witness ==
    /\ ~wire.locked
    /\ assigned[1].b = assigned[2].b
    /\ assigned[1].pc = "done" /\ assigned[2].pc = "done"
    /\ SameNumberTwice(bundles[assigned[1].b], heap)

----------------------------------------------------------------------------
(* The round trip of a primary block array, checked under SpecTrip *)

\* an array of 8 elements with version 7 whose endpoints are pairs with
\* scheme code 1 or 2 and whose timestamp is a pair
ValidPrimaryArray(a) ==
    /\ Len(a) = 8
    /\ a[1] = 7
    /\ \A i \in 4..7 : Len(a[i]) = 2
    /\ \A i \in 4..6 : a[i][1] \in {URI_SCHEME_DTN_ENCODED, URI_SCHEME_IPN_ENCODED}

\* C26: a valid primary block array is decoded, the block's to_block_data
\* has the elements of the array, each endpoint and the timestamp with its
\* two elements, and decoding that again gives a PrimaryBlock equal to the
\* first.
C26_PrimaryRoundTrip ==
    (last.op = "primary_round_trip" /\ ValidPrimaryArray(wire)) =>
        /\ last.err = "ok"
        /\ Len(out.v) = 8
        /\ \A i \in 1..8 : out.v[i] = wire[i]
        /\ out.back = out.p

\* C26 witness: an array with an ipn destination, a dtn source, flags and
\* a CRC type has made the round trip
C26_Witness ==
    /\ last.op = "primary_round_trip" /\ last.err = "ok"
    /\ wire[2] = 4 /\ wire[3] = 1
    /\ wire[4] = <<2, SpecificPart("list", "", <<1, 2>>)>>
    /\ wire[5][2].kind = "str"
    /\ wire[7] = <<5, 1>>

----------------------------------------------------------------------------
(* The frame of a failed insert, checked under Spec *)

\* C27: an insert_canonical_block that raises leaves the Bundle's slots, its
\* other_blocks and its cur_block_number as they were, and leaves the
\* rejected block's block_number as it was.
C27_FailedInsertFrame ==
    [][(last'.op = "insert" /\ last'.err # "ok") =>
            /\ bundles'[last'.b] = bundles[last'.b]
            /\ heap'[last'.arg.id].block_number = heap[last'.arg.id].block_number]_vars

----------------------------------------------------------------------------
(* The frame between two Bundles, checked under Spec *)

\* C28: an insert_canonical_block or a remove_block on one Bundle leaves
\* the to_block_data of every other Bundle as it was.
C28_OtherBundleUnchanged ==
    [][last'.op \in {"insert", "remove"} =>
            \A c \in BundleIds \ {last'.b} :
                bundles[c] # NoBundle =>
                    Bundle_to_block_data(bundles'[c], heap') = Bundle_to_block_data(bundles[c], heap)]_vars

----------------------------------------------------------------------------
(* The cardinality of the singleton type codes, checked under SpecGeneric *)

\* the type codes of the payload, previous node, bundle age and hop count
\* block
SingletonTypeCodes == {1, 6, 7, 10}

\* C29: to_block_data of a Bundle holds at most one canonical block array
\* with each singleton type code, and other_blocks holds no block with a
\* singleton type code.
C29_CardinalityOnWire ==
    \A b \in BundleIds :
        (bundles[b] # NoBundle /\ bundles[b].primary_block # NonePrimary) =>
            LET v == Bundle_to_block_data(bundles[b], heap).v
            IN  /\ \A c \in SingletonTypeCodes :
                       Cardinality({i \in 2..Len(v) : v[i][1] = c}) <= 1
                /\ \A i \in 1..Len(bundles[b].other_blocks) :
                       heap[bundles[b].other_blocks[i]].block_type_code \notin SingletonTypeCodes

----------------------------------------------------------------------------
(* The mode of the DTNWSClient, checked under SpecClient *)

\* the command that puts a connection into a mode
CommandOf(mode) == IF mode = DATA_MODE THEN _DATA_MODE ELSE _JSON_MODE

\* C30: the mode property is the mode last commanded on the current
\* connection, and is DATA_MODE right after _on_open has sent '/data'; a
\* mode assignment whose send raises leaves the mode as it was; assigning
\* the current mode sends nothing; running is true from an _on_open that
\* returned to the next _on_close.
C30_ModeConsistency ==
    [][/\ (wire'.open /\ wire'.commanded # "none") => CommandOf(heap'.mode) = wire'.commanded
       /\ (last'.op = "_on_open" /\ last'.err = "ok") => heap'.mode = DATA_MODE
       /\ (last'.op = "mode" /\ last'.err # "ok") => heap'.mode = heap.mode
       /\ (last'.op = "mode" /\ last'.arg.id = heap.mode) => wire' = wire
       /\ (last'.op = "_on_open" /\ last'.err = "ok") => heap'.running
       /\ last'.op = "_on_close" => ~heap'.running
       /\ last'.op \in {"mode", "send_data"} => heap'.running = heap.running]_vars

====
